---- MODULE Spec2Model ----
(***************************************************************************)
(* A model of raiot-rs: the circular byte buffer (raiot-buffers), the MQTT *)
(* framer and connection (raiot-mqtt), the threaded client's socket loop   *)
(* (raiot-client) and the single-threaded client's subscription states     *)
(* (raiot-stclient).                                                       *)
(*                                                                         *)
(* Every subsystem has its own specification over the shared variables;    *)
(* the variables of the other subsystems keep their initial values.        *)
(***************************************************************************)
EXTENDS Integers, Sequences, FiniteSets, TLC

VARIABLES
    rb,        \* raiot-buffers: the CircularBuffer under test
    appended,  \* history: every byte appended to rb, in order
    taken,     \* history: every byte handed out by read_bytes, in order
    ringLast,  \* history: the last ring operation and what it returned
    rx,        \* raiot-mqtt: the MqttPacketizer's buffer (RX ring)
    wire,      \* the bytes the peer has sent and the client has not read yet
    pkts,      \* history: the packets the peer sends, in order
    delivered, \* history: the packets get_next_packet has returned, in order
    rxLast,    \* history: the last packetizer call and what it returned
    tx,        \* raiot-mqtt: the MqttStreamer's buffer (TX ring)
    sentBytes, \* history: the bytes the transport has accepted, in order
    queued,    \* history: the encodings of the packets whose write succeeded
    txLast,    \* history: the last outbound call and what it returned
    net,       \* the transport: what its reads and writes may return
    conn,      \* raiot-mqtt: the connect in progress and how it ended
    handles,   \* raiot-client: the MessageState and MessageFuture of every send
    sock,      \* raiot-client: IotSocketCtl and the position of socket_loop
    client     \* raiot-stclient: IotClient

ringVars == <<rb, appended, taken, ringLast>>

inVars == <<rx, wire, pkts, delivered, rxLast>>

outVars == <<tx, sentBytes, queued, txLast>>

cnVars == <<net, conn>>

appVars == <<handles, sock, client>>

vars == <<ringVars, inVars, outVars, cnVars, appVars>>

\* what the operations of one subsystem leave alone
notRing == <<inVars, outVars, cnVars, appVars>>

notIn == <<ringVars, outVars, cnVars, appVars>>

notOut == <<ringVars, inVars, cnVars, appVars>>

(***************************************************************************)
(* Bounds                                                                  *)
(***************************************************************************)
\* largest capacity of the CircularBuffer under test
MaxCap == 3
\* total number of bytes the ring specifications append
MaxBytes == 7
\* the RX ring sizes range over MIN_BUFFER_SIZE .. MIN_BUFFER_SIZE + RxExtra
RxExtra == 1
\* number of packets the peer sends to the framer
MaxPkts == 3
\* capacity of the TX ring of the connection
TxCap == 6
\* number of messages the user hands to IotSocketTx::send
MaxMsgs == 2
\* the futures the callers hold while the interleavings of poll and handle_ack
\* are explored
MaxFutures == 1
\* the packet-ids of messages and acknowledgements are 1 .. MaxPid
MaxPid == 2
\* number of messages the user leaves unread in the incoming channel
MaxIn == 1
\* number of packet-ids the single-threaded client's requests use
MaxSubs == 2
\* how far from a fresh allocator, and from one about to overflow, the runs of
\* the allocator on its own start and go
NumSpan == 60

\* number of packets the client writes to the connection
MaxWrites == 3
\* iterations of a send loop before its time is up
MaxSpin == 2
\* times the transport may block although it could make progress (connect)
MaxBlocks == 2

(***************************************************************************)
(* Helpers for byte slices.  Storage positions are 0-based as in the       *)
(* source; a buffer of size n is a sequence of length n.                   *)
(***************************************************************************)
Min(a, b) == IF a <= b THEN a ELSE b

\* &buffer[from..to]
slice(buffer, from, to) == SubSeq(buffer, from + 1, to)

\* buffer[from..from+len].copy_from_slice(bytes)
copy_from_slice(buffer, from, bytes) ==
    [i \in 1..Len(buffer) |->
        IF i > from /\ i <= from + Len(bytes) THEN bytes[i - from] ELSE buffer[i]]

IsPrefix(s, t) == Len(s) <= Len(t) /\ s = SubSeq(t, 1, Len(s))

(***************************************************************************)
(* raiot-buffers: CircularBuffer                                           *)
(***************************************************************************)
CircularBuffer_new(n) ==
    [buffer |-> [i \in 1..n |-> 0], read |-> 0, write |-> 0, full |-> FALSE]

is_full(b) == b.full

is_empty(b) == (b.read = b.write) /\ ~b.full

size(b) == Len(b.buffer)

valid_length(b) ==
    IF is_full(b) THEN size(b)
    ELSE IF is_empty(b) THEN 0
    ELSE IF b.write >= b.read THEN b.write - b.read
    ELSE Len(b.buffer) + b.write - b.read

available_space(b) ==
    IF is_empty(b) THEN size(b)
    ELSE IF is_full(b) THEN 0
    ELSE IF b.write >= b.read THEN size(b) - (b.write - b.read)
    ELSE size(b) - (b.write + size(b) - b.read)

\* BufferSlice: Consecutive(p1) or Splitted(p1, p2)
get_buffer_slice(b, from, length) ==
    LET end_pos == from + length IN
    IF end_pos <= size(b)
    THEN [kind |-> "Consecutive", p1 |-> slice(b.buffer, from, end_pos), p2 |-> <<>>]
    ELSE [kind |-> "Splitted",
          p1 |-> slice(b.buffer, from, size(b)),
          p2 |-> slice(b.buffer, 0, end_pos % size(b))]

\* BufferSlice::into_vec
into_vec(s) == s.p1 \o s.p2

\* a slip: a request longer than the first part is served from the second
\* part first
BufferSlice_read_m(s, len) ==
    LET take(bytes, n) == SubSeq(bytes, 1, Min(n, Len(bytes)))
        drop(bytes, n) == SubSeq(bytes, Min(n, Len(bytes)) + 1, Len(bytes))
    IN
    IF s.kind = "Consecutive" \/ len <= Len(s.p1)
    THEN [bytes |-> take(s.p1, len), slice |-> [s EXCEPT !.p1 = drop(s.p1, len)]]
    ELSE [bytes |-> take(s.p2, len) \o take(s.p1, len - Len(take(s.p2, len))),
          slice |-> [s EXCEPT !.p2 = drop(s.p2, len),
                              !.p1 = drop(s.p1, len - Len(take(s.p2, len)))]]

\* impl Read for BufferSlice: read(buf) with |buf| = len.  The bytes put in
\* buf (the returned count is their number) and the view afterwards.
\* <&[u8] as Read>::read copies min(|buf|, |bytes|) bytes and moves the
\* slice past them.
BufferSlice_read(s, len) ==
    LET take(bytes, n) == SubSeq(bytes, 1, Min(n, Len(bytes)))
        drop(bytes, n) == SubSeq(bytes, Min(n, Len(bytes)) + 1, Len(bytes))
    IN
    IF s.kind = "Consecutive"
    THEN [bytes |-> take(s.p1, len), slice |-> [s EXCEPT !.p1 = drop(s.p1, len)]]
    ELSE IF len <= Len(s.p1)
    THEN [bytes |-> take(s.p1, len), slice |-> [s EXCEPT !.p1 = drop(s.p1, len)]]
    ELSE
        LET part1_len == Len(s.p1)
            part2_buf_len == len - part1_len
        IN [bytes |-> take(s.p1, part1_len) \o take(s.p2, part2_buf_len),
            slice |-> [s EXCEPT !.p1 = drop(s.p1, part1_len),
                                !.p2 = drop(s.p2, part2_buf_len)]]

\* panics when length > valid_length: the callers below guard it
peek(b, length) == get_buffer_slice(b, b.read, length)

peek_remaining(b) == get_buffer_slice(b, b.read, valid_length(b))

\* a slip: the read index is advanced without wrapping
read_bytes_m(b, length) ==
    LET from == b.read
        nb == [b EXCEPT !.read = b.read + length, !.full = FALSE]
    IN [buf |-> nb, slice |-> get_buffer_slice(nb, from, length)]

\* panics when length = 0 or length > valid_length: the callers guard it
read_bytes(b, length) ==
    LET from == b.read
        nb == [b EXCEPT !.read = (b.read + length) % size(b), !.full = FALSE]
    IN [buf |-> nb, slice |-> get_buffer_slice(nb, from, length)]

\* a slip in the wrapped copy: the second half is taken from the start of bytes
store_bytes_m(b, bytes) ==
    LET first_half_size == size(b) - b.write IN
    IF b.write + Len(bytes) <= size(b)
    THEN copy_from_slice(b.buffer, b.write, bytes)
    ELSE copy_from_slice(
             copy_from_slice(b.buffer, b.write, SubSeq(bytes, 1, first_half_size)),
             0, SubSeq(bytes, 1, Len(bytes) - first_half_size))

\* the copy of append_all_bytes: in one piece, or in two around the end
store_bytes(b, bytes) ==
    LET end_pos == b.write + Len(bytes)
        first_half_size == size(b) - b.write
    IN
    IF end_pos <= size(b)
    THEN copy_from_slice(b.buffer, b.write, bytes)
    ELSE copy_from_slice(
             copy_from_slice(b.buffer, b.write, SubSeq(bytes, 1, first_half_size)),
             0, SubSeq(bytes, first_half_size + 1, Len(bytes)))

\* a slip: as many bytes as fit are written before WriteZero is reported
append_all_bytes_m(b, bytes) ==
    LET avail == available_space(b)
        part == SubSeq(bytes, 1, Min(avail, Len(bytes)))
    IN
    [res |-> IF avail < Len(bytes) THEN "WriteZero" ELSE "Ok",
     buf |-> IF Len(part) = 0 THEN b
             ELSE [b EXCEPT !.buffer = store_bytes(b, part),
                            !.write = (b.write + Len(part)) % size(b),
                            !.full = IF Len(part) = avail THEN TRUE ELSE b.full]]

append_all_bytes(b, bytes) ==
    LET avail == available_space(b) IN
    IF avail < Len(bytes)
    THEN [res |-> "WriteZero", buf |-> b]
    ELSE
        LET will_be_full == Len(bytes) = avail IN
        [res |-> "Ok",
         buf |-> [b EXCEPT !.buffer = store_bytes(b, bytes),
                           !.write = (b.write + Len(bytes)) % size(b),
                           !.full = IF will_be_full THEN TRUE ELSE b.full]]

\* impl Write for CircularBuffer
Write_write(b, buf) ==
    LET write_size == Min(available_space(b), Len(buf))
        r == append_all_bytes(b, SubSeq(buf, 1, write_size))
    IN [res |-> r.res, n |-> write_size, buf |-> r.buf]

get_next_consecutive_free_space(b) ==
    IF b.write < b.read THEN <<b.write, b.read>> ELSE <<b.write, size(b)>>

(***************************************************************************)
(* A reader (std::io::Read) and a sink (std::io::Write) are the            *)
(* environment.  `src` is the data the reader has still to produce.  An    *)
(* environment record says what else a call may return:                    *)
(*   errs : the error kinds it may fail with                               *)
(*   zero : whether it may return Ok(0)                                    *)
(*   down : whether the connection is gone: no write succeeds, and a read  *)
(*          gives the bytes still in flight before it returns 0 or fails   *)
(***************************************************************************)
ErrorKinds == {"WouldBlock", "Interrupted", "ConnectionReset"}

AnyIo == [errs |-> ErrorKinds, zero |-> TRUE, down |-> FALSE]

\* reader.read(buf) with |buf| = len: Ok(k) with the next k bytes, Ok(0), or Err
reader_read(src, len, env) ==
    {[res |-> "Ok", k |-> k] : k \in 1..Min(len, Len(src))}
    \cup (IF env.zero /\ (env.down => src = <<>>) THEN {[res |-> "Ok", k |-> 0]} ELSE {})
    \cup {[res |-> e, k |-> 0] : e \in env.errs}

\* writer.write(buf): Ok(k) with k bytes of buf accepted, or Err
writer_write(buf, env) ==
    (IF env.down THEN {}
     ELSE {[res |-> "Ok", k |-> k] :
              k \in (IF env.zero THEN 0 ELSE Min(1, Len(buf)))..Len(buf)})
    \cup {[res |-> e, k |-> 0] : e \in env.errs}

\* one successful read of k bytes in append_from_reader: the bytes land in
\* the free region and the write index moves on
reader_filled(b, src, k) ==
    [buf |-> [b EXCEPT !.buffer = copy_from_slice(b.buffer, b.write, SubSeq(src, 1, k)),
                       !.write = (b.write + k) % size(b)],
     src |-> SubSeq(src, k + 1, Len(src))]

\* the loop of append_from_reader: every way it can run against the reader.
\* Each outcome: the buffer, the result (res, ret) and the reader's rest.
RECURSIVE append_from_reader_loop(_, _, _, _)
append_from_reader_loop(b, src, total, env) ==
    LET fs == get_next_consecutive_free_space(b)
        step(r) ==
            IF r.res # "Ok" THEN {[buf |-> b, res |-> r.res, ret |-> 0, src |-> src]}
            ELSE IF r.k = 0 THEN {[buf |-> b, res |-> "Ok", ret |-> total, src |-> src]}
            ELSE UNION {
                IF f.buf.write = f.buf.read
                THEN {[buf |-> [f.buf EXCEPT !.full = TRUE], res |-> "Ok",
                       ret |-> total + r.k, src |-> f.src]}
                ELSE append_from_reader_loop(f.buf, f.src, total + r.k, env)
                : f \in {reader_filled(b, src, r.k)}}
    IN UNION {step(r) : r \in reader_read(src, fs[2] - fs[1], env)}

\* append_from_reader without the check for a full buffer
append_from_reader_m(b, src, env) == append_from_reader_loop(b, src, 0, env)

append_from_reader(b, src, env) ==
    IF available_space(b) = 0
    THEN {[buf |-> b, res |-> "WriteZero", ret |-> 0, src |-> src]}
    ELSE append_from_reader_loop(b, src, 0, env)

\* the ring after n bytes were drained by write_into
drained(b, n) == [b EXCEPT !.read = (b.read + n) % size(b), !.full = FALSE]

\* write_into returning the error of the wraparound write whatever its kind
write_into_slice_m(b, s, env) ==
    LET second(w1) ==
            LET part1 == SubSeq(s.p1, 1, w1.k)
                after(w2) ==
                    IF w2.res = "Ok"
                    THEN [buf |-> drained(b, w1.k + w2.k), res |-> "Ok",
                          ret |-> w1.k + w2.k, out |-> part1 \o SubSeq(s.p2, 1, w2.k),
                          second |-> w2.res]
                    ELSE [buf |-> drained(b, w1.k), res |-> w2.res, ret |-> 0,
                          out |-> part1, second |-> w2.res]
            IN {after(w2) : w2 \in writer_write(s.p2, env)}
        first(w1) ==
            IF w1.res # "Ok"
            THEN {[buf |-> b, res |-> w1.res, ret |-> 0, out |-> <<>>, second |-> "none"]}
            ELSE IF s.kind = "Consecutive"
            THEN {[buf |-> drained(b, w1.k), res |-> "Ok", ret |-> w1.k,
                   out |-> SubSeq(s.p1, 1, w1.k), second |-> "none"]}
            ELSE second(w1)
    IN UNION {first(w1) : w1 \in writer_write(s.p1, env)}

\* write_into on the view s of the stored bytes; second: what the sink
\* answered for the wraparound region
write_into_slice(b, s, env) ==
    LET second(w1) ==
            LET part1 == SubSeq(s.p1, 1, w1.k)
                after(w2) ==
                    IF w2.res = "Ok"
                    THEN [buf |-> drained(b, w1.k + w2.k), res |-> "Ok",
                          ret |-> w1.k + w2.k, out |-> part1 \o SubSeq(s.p2, 1, w2.k),
                          second |-> w2.res]
                    ELSE IF w2.res \in {"WouldBlock", "Interrupted"}
                    THEN [buf |-> drained(b, w1.k), res |-> "Ok", ret |-> w1.k,
                          out |-> part1, second |-> w2.res]
                    ELSE [buf |-> drained(b, w1.k), res |-> w2.res, ret |-> 0,
                          out |-> part1, second |-> w2.res]
            IN {after(w2) : w2 \in writer_write(s.p2, env)}
        first(w1) ==
            IF w1.res # "Ok"
            THEN {[buf |-> b, res |-> w1.res, ret |-> 0, out |-> <<>>, second |-> "none"]}
            ELSE IF s.kind = "Consecutive"
            THEN {[buf |-> drained(b, w1.k), res |-> "Ok", ret |-> w1.k,
                   out |-> SubSeq(s.p1, 1, w1.k), second |-> "none"]}
            ELSE second(w1)
    IN UNION {first(w1) : w1 \in writer_write(s.p1, env)}

\* write_into: every way it can run against the sink.  `out` is what the sink
\* accepted, in the order it accepted it.
write_into(b, env) ==
    UNION {write_into_slice(b, s, env) : s \in {peek_remaining(b)}}

(***************************************************************************)
(* The ring on its own: a buffer of any capacity 1..MaxCap, fed the bytes  *)
(* 1, 2, 3, ... so that any loss, duplication or reordering shows.         *)
(***************************************************************************)
\* the next n bytes a producer hands to the ring
NextBytes(n) == [i \in 1..n |-> Len(appended) + i]

RingInit ==
    /\ rb \in {CircularBuffer_new(n) : n \in 1..MaxCap}
    /\ appended = <<>>
    /\ taken = <<>>
    /\ ringLast = [op |-> "new"]

RingIdle ==
    /\ rb = CircularBuffer_new(1)
    /\ appended = <<>>
    /\ taken = <<>>
    /\ ringLast = [op |-> "new"]

AppendAllBytes ==
    \E n \in 0..(MaxCap + 1) :
        /\ Len(appended) + n <= MaxBytes
        /\ LET r == append_all_bytes(rb, NextBytes(n)) IN
            /\ rb' = r.buf
            /\ appended' = IF r.res = "Ok" THEN appended \o NextBytes(n) ELSE appended
            /\ ringLast' = [op |-> "append_all_bytes", res |-> r.res, n |-> n]
        /\ UNCHANGED taken
        /\ UNCHANGED notRing

ReadBytes ==
    \E n \in 1..valid_length(rb) :
        LET r == read_bytes(rb, n) IN
        /\ rb' = r.buf
        /\ taken' = taken \o into_vec(r.slice)
        /\ ringLast' = [op |-> "read_bytes", n |-> n, kind |-> r.slice.kind]
        /\ UNCHANGED appended
        /\ UNCHANGED notRing

Peek ==
    \E n \in 0..valid_length(rb) :
        /\ ringLast' = [op |-> "peek", n |-> n, bytes |-> into_vec(peek(rb, n))]
        /\ UNCHANGED <<rb, appended, taken>>
        /\ UNCHANGED notRing

RingWrite ==
    \E n \in 0..(MaxCap + 1) :
        /\ Len(appended) + Min(n, available_space(rb)) <= MaxBytes
        /\ LET r == Write_write(rb, NextBytes(n)) IN
            /\ rb' = r.buf
            /\ appended' = IF r.res = "Ok" THEN appended \o NextBytes(r.n) ELSE appended
            /\ ringLast' = [op |-> "write", res |-> r.res, n |-> r.n]
        /\ UNCHANGED taken
        /\ UNCHANGED notRing

AppendFromReader ==
    \E o \in append_from_reader(rb, NextBytes(MaxBytes - Len(appended)), AnyIo) :
        LET n == (MaxBytes - Len(appended)) - Len(o.src) IN
        /\ rb' = o.buf
        /\ appended' = appended \o NextBytes(n)
        /\ ringLast' = [op |-> "append_from_reader", res |-> o.res, ret |-> o.ret, n |-> n]
        /\ UNCHANGED taken
        /\ UNCHANGED notRing

WriteInto ==
    \E o \in write_into(rb, AnyIo) :
        /\ rb' = o.buf
        /\ taken' = taken \o o.out
        /\ ringLast' = [op |-> "write_into", res |-> o.res, ret |-> o.ret, out |-> o.out,
                        second |-> o.second]
        /\ UNCHANGED appended
        /\ UNCHANGED notRing


(***************************************************************************)
(* MQTT packets on the wire (the mqtt crate's Encodable / Decodable).  A   *)
(* packet is its type, its flags and the bytes after the fixed header.     *)
(***************************************************************************)
\* the remaining-length field: 7 bits per byte, low bits first
RECURSIVE encode_remaining_length(_)
encode_remaining_length(n) ==
    IF n < 128 THEN <<n>> ELSE <<(n % 128) + 128>> \o encode_remaining_length(n \div 128)

\* Encodable::encode
encode(p) ==
    <<p.type * 16 + p.flags>> \o encode_remaining_length(Len(p.body)) \o p.body

\* Encodable::encoded_length
encoded_length(p) == Len(encode(p))

\* the length loop of FixedHeader::decode, reading byte i of the length
RECURSIVE decode_remaining_length(_, _, _, _)
decode_remaining_length(bs, i, cur, mul) ==
    IF Len(bs) < i + 2 THEN [res |-> "UnexpectedEof"]
    ELSE
        LET byte == bs[i + 2]
            val == cur + (byte % 128) * mul
        IN IF i >= 4 THEN [res |-> "Malformed"]
           ELSE IF byte < 128 THEN [res |-> "Ok", len |-> val]
           ELSE decode_remaining_length(bs, i + 1, val, mul * 128)

\* FixedHeader::encoded_length
fixed_header_encoded_length(remaining_length) ==
    1 + (IF remaining_length < 128 THEN 1
         ELSE IF remaining_length < 16384 THEN 2
         ELSE IF remaining_length < 2097152 THEN 3
         ELSE 4)

\* FixedHeader::decode: the type byte, then the length, then the type check
FixedHeader_decode(bs) ==
    IF Len(bs) < 1 THEN [res |-> "UnexpectedEof"]
    ELSE
        LET l == decode_remaining_length(bs, 0, 0, 1)
            ty == bs[1] \div 16
        IN IF l.res # "Ok" THEN l
           ELSE IF ty \in 1..14
           THEN [res |-> "Ok", type |-> ty, flags |-> bs[1] % 16,
                 remaining_length |-> l.len,
                 encoded_length |-> fixed_header_encoded_length(l.len)]
           ELSE [res |-> "Reserved"]

\* VariablePacket::decode of exactly one packet's bytes
VariablePacket_decode(bs) ==
    LET h == FixedHeader_decode(bs) IN
    IF h.res = "Ok" /\ Len(bs) = h.encoded_length + h.remaining_length
    THEN [res |-> "Ok",
          packet |-> [type |-> h.type, flags |-> h.flags,
                      body |-> SubSeq(bs, h.encoded_length + 1, Len(bs))]]
    ELSE [res |-> "Err"]

(***************************************************************************)
(* raiot-mqtt: MqttPacketizer                                              *)
(***************************************************************************)
MIN_BUFFER_SIZE == 5

MqttPacketizer_with_buffer_size(n) == CircularBuffer_new(n)

\* MqttPacketizer::append_bytes (and its Write::write)
append_bytes(b, bytes) ==
    LET write_size == Min(available_space(b), Len(bytes))
        r == append_all_bytes(b, SubSeq(bytes, 1, write_size))
    IN [res |-> r.res, n |-> write_size, buf |-> r.buf]

\* a slip: the header's own length is left out of the packet length
packet_length_m(h) == h.remaining_length

\* fixed_header_length + remaining_length
packet_length(h) == h.encoded_length + h.remaining_length

\* a slip: a packet that can never fit is waited for like any other
get_next_packet_m(b) ==
    IF valid_length(b) <= 1 THEN [res |-> "None", buf |-> b]
    ELSE
        LET max_fixed_header_bytes == Min(valid_length(b), 5)
            h == FixedHeader_decode(into_vec(peek(b, max_fixed_header_bytes)))
        IN
        IF h.res = "Ok" THEN
            IF valid_length(b) < packet_length(h)
            THEN [res |-> "None", buf |-> b]
            ELSE
                LET r == read_bytes(b, packet_length(h))
                    d == VariablePacket_decode(into_vec(r.slice))
                IN IF d.res = "Ok"
                   THEN [res |-> "Packet", buf |-> r.buf, packet |-> d.packet,
                         kind |-> r.slice.kind]
                   ELSE [res |-> "InvalidData", buf |-> r.buf]
        ELSE IF h.res = "UnexpectedEof" THEN [res |-> "None", buf |-> b]
        ELSE [res |-> "InvalidData", buf |-> b]

get_next_packet(b) ==
    IF valid_length(b) <= 1 THEN [res |-> "None", buf |-> b]
    ELSE
        LET max_fixed_header_bytes == Min(valid_length(b), 5)
            h == FixedHeader_decode(into_vec(peek(b, max_fixed_header_bytes)))
        IN
        IF h.res = "Ok" THEN
            IF valid_length(b) < packet_length(h)
            THEN IF size(b) < packet_length(h)
                 THEN [res |-> "InvalidData", buf |-> b]
                 ELSE [res |-> "None", buf |-> b]
            ELSE
                LET r == read_bytes(b, packet_length(h))
                    d == VariablePacket_decode(into_vec(r.slice))
                IN IF d.res = "Ok"
                   THEN [res |-> "Packet", buf |-> r.buf, packet |-> d.packet,
                         kind |-> r.slice.kind]
                   ELSE [res |-> "InvalidData", buf |-> r.buf]
        ELSE IF h.res = "UnexpectedEof" THEN [res |-> "None", buf |-> b]
        ELSE [res |-> "InvalidData", buf |-> b]

(***************************************************************************)
(* The framer on its own: the peer sends up to MaxPkts packets, the bytes  *)
(* arrive in chunks of any size and get_next_packet is called at any time. *)
(***************************************************************************)
PINGRESP == [type |-> 13, flags |-> 0, body |-> <<>>]

PUBACK(pid) == [type |-> 4, flags |-> 0, body |-> <<pid \div 256, pid % 256>>]

SUBACK(pid, code) == [type |-> 9, flags |-> 0, body |-> <<pid \div 256, pid % 256, code>>]

CONNACK(code) == [type |-> 2, flags |-> 0, body |-> <<0, code>>]

\* PUBLISH, QoS 0, topic "a", one byte of payload
PUBLISH0(payload) == [type |-> 3, flags |-> 0, body |-> <<0, 1, 97, payload>>]

BrokerPackets == {PINGRESP, PUBACK(1), SUBACK(2, 0), PUBLISH0(7)}

RECURSIVE encode_all(_)
encode_all(ps) == IF ps = <<>> THEN <<>> ELSE encode(Head(ps)) \o encode_all(Tail(ps))

FramerInit ==
    /\ \E n \in MIN_BUFFER_SIZE..(MIN_BUFFER_SIZE + RxExtra) :
           rx = MqttPacketizer_with_buffer_size(n)
    /\ \E k \in 1..MaxPkts :
           pkts \in [1..k -> {p \in BrokerPackets : encoded_length(p) <= size(rx)}]
    /\ wire = encode_all(pkts)
    /\ delivered = <<>>
    /\ rxLast = [op |-> "new"]

InIdle ==
    /\ rx = MqttPacketizer_with_buffer_size(MIN_BUFFER_SIZE)
    /\ wire = <<>>
    /\ pkts = <<>>
    /\ delivered = <<>>
    /\ rxLast = [op |-> "new"]

\* one chunk of the stream is written to the packetizer
Feed ==
    \E k \in 1..Len(wire) :
        LET r == append_bytes(rx, SubSeq(wire, 1, k)) IN
        /\ rx' = r.buf
        /\ wire' = SubSeq(wire, r.n + 1, Len(wire))
        /\ rxLast' = [op |-> "append_bytes", res |-> r.res, n |-> r.n]
        /\ UNCHANGED <<pkts, delivered>>
        /\ UNCHANGED notIn

\* the bytes of the stream that precede the next packet to deliver, and its end
Behind(n) == Len(encode_all(SubSeq(pkts, 1, n)))

GetNextPacket ==
    LET r == get_next_packet(rx)
        buffered == Len(encode_all(pkts)) - Len(wire) - Behind(Len(delivered))
        complete == /\ Len(delivered) < Len(pkts)
                    /\ buffered >= encoded_length(pkts[Len(delivered) + 1])
    IN
    /\ rx' = r.buf
    /\ delivered' = IF r.res = "Packet" THEN Append(delivered, r.packet) ELSE delivered
    /\ rxLast' = [op |-> "get_next_packet", res |-> r.res, complete |-> complete,
                  kind |-> IF r.res = "Packet" THEN r.kind ELSE "none"]
    /\ UNCHANGED <<wire, pkts>>
    /\ UNCHANGED notIn

FramerNext == Feed \/ GetNextPacket

(***************************************************************************)
(* C2  Framer completeness: the encodings of N valid packets, fed in any   *)
(* chunking, come out of get_next_packet as exactly those N packets in     *)
(* order; get_next_packet returns a packet exactly when the buffered bytes *)
(* hold a complete packet, None otherwise, and never an error.             *)
(***************************************************************************)
C2_FramerComplete ==
    /\ IsPrefix(delivered, pkts)
    /\ rxLast.op = "get_next_packet" =>
           /\ rxLast.res # "InvalidData"
           /\ (rxLast.res = "Packet") <=> rxLast.complete
           /\ (wire = <<>> /\ rxLast.res = "None") => delivered = pkts

\* all the packets of a stream of three came out, the last one read across the wrap
C2_Witness ==
    /\ Len(pkts) >= 3
    /\ delivered = pkts
    /\ rxLast.op = "get_next_packet"
    /\ rxLast.kind = "Splitted"

(***************************************************************************)
(* C1  CircularBuffer FIFO: over any run of append_all_bytes and           *)
(* read_bytes, the bytes returned by the reads, concatenated, are the      *)
(* prefix of the same length of the bytes appended, concatenated, also     *)
(* when appends and reads wrap around the end of the storage.              *)
(***************************************************************************)
C1_Fifo == IsPrefix(taken, appended)

\* a read that wrapped around the end of the storage has returned its bytes
C1_Witness ==
    /\ ringLast.op = "read_bytes"
    /\ ringLast.kind = "Splitted"
    /\ Len(taken) > size(rb)

(***************************************************************************)
(* C10  Ring invariant: after any sequence of ring operations,             *)
(* valid_length + available_space = size, both indices are below size,     *)
(* is_full holds exactly when valid_length = size and is_empty exactly     *)
(* when valid_length = 0.                                                  *)
(***************************************************************************)
C10_RingInvariant ==
    /\ valid_length(rb) + available_space(rb) = size(rb)
    /\ rb.read < size(rb)
    /\ rb.write < size(rb)
    /\ is_full(rb) <=> (valid_length(rb) = size(rb))
    /\ is_empty(rb) <=> (valid_length(rb) = 0)

\* the ring is wrapped, neither empty nor full, after a partial drain
C10_Witness ==
    /\ ringLast.op = "write_into"
    /\ rb.write < rb.read
    /\ valid_length(rb) > 0
    /\ available_space(rb) > 0

(***************************************************************************)
(* raiot-mqtt: MqttStreamer and the outbound half of MqttConnection        *)
(***************************************************************************)
MqttStreamer_with_buffer_size(n) == CircularBuffer_new(n)

\* a slip: the free space is not checked, the ring takes what fits
write_packet_m(b, packet) ==
    LET length == encoded_length(packet) IN
    IF length > size(b) THEN [res |-> "InvalidInput", buf |-> b]
    ELSE LET r == Write_write(b, encode(packet)) IN
         [res |-> IF r.n = length THEN "Ok" ELSE "InvalidInput", buf |-> r.buf]

\* a slip: the packet is measured against the free space only
write_packet_free(b, packet) ==
    LET length == encoded_length(packet) IN
    IF length > available_space(b) THEN [res |-> "WriteZero", buf |-> b]
    ELSE LET r == Write_write(b, encode(packet)) IN
         [res |-> IF r.res = "Ok" THEN "Ok" ELSE "InvalidInput", buf |-> r.buf]

\* MqttStreamer::write_packet; packet.encode writes the bytes with write_all
write_packet(b, packet) ==
    LET length == encoded_length(packet) IN
    IF length > size(b) THEN [res |-> "InvalidInput", buf |-> b]
    ELSE IF length > available_space(b) THEN [res |-> "WriteZero", buf |-> b]
    ELSE LET r == Write_write(b, encode(packet)) IN
         [res |-> IF r.res = "Ok" THEN "Ok" ELSE "InvalidInput", buf |-> r.buf]

\* MqttConnection::write
MqttConnection_write(b, packet) == write_packet(b, packet)

\* the loop of send_task: every way it can run against the transport; the
\* time may be up at the top of any iteration, and is after `fuel` of them
RECURSIVE send_task_loop(_, _, _, _)
send_task_loop(b, out, fuel, env) ==
    LET timed_out == {[buf |-> b, res |-> "Ok", ret |-> valid_length(b), out |-> out]}
        after(o) ==
            IF o.res \in {"Ok", "Interrupted"}
            THEN UNION {send_task_loop(o.buf, acc, fuel - 1, env) : acc \in {out \o o.out}}
            ELSE IF o.res = "WouldBlock"
            THEN {[buf |-> o.buf, res |-> "Ok", ret |-> valid_length(o.buf),
                   out |-> out \o o.out]}
            ELSE {[buf |-> o.buf, res |-> o.res, ret |-> 0, out |-> out \o o.out]}
    IN timed_out \cup
       (IF is_empty(b) THEN {[buf |-> b, res |-> "Ok", ret |-> 0, out |-> out]}
        ELSE IF fuel = 0 THEN {}
        ELSE UNION {after(o) : o \in write_into(b, env)})

send_task(b, env) == send_task_loop(b, <<>>, MaxSpin, env)

(***************************************************************************)
(* The connected MqttConnection, outbound: packets are written to the TX   *)
(* ring and send_task drains it into a transport that accepts any part of  *)
(* what it is offered, blocks, is interrupted or fails.                    *)
(***************************************************************************)
PINGREQ == [type |-> 12, flags |-> 0, body |-> <<>>]

\* the packets a client writes; the k-th write carries packet-id k
ClientPackets(k) == {PINGREQ, PUBACK(k)}

\* a transport that takes or gives at least one byte, blocks or is interrupted
PartialIo == [errs |-> {"WouldBlock", "Interrupted"}, zero |-> FALSE, down |-> FALSE]

\* the transport of this run: "partial" (PartialIo) or "any" (AnyIo); and what
\* is left of it once the connection was reset, or closed by the peer
IoOf(n) ==
    IF n.kind = "partial" THEN PartialIo
    ELSE IF n.kind = "reset"
    THEN [errs |-> {"ConnectionReset"}, zero |-> FALSE, down |-> TRUE]
    ELSE IF n.kind = "closed"
    THEN [errs |-> {}, zero |-> TRUE, down |-> TRUE]
    ELSE AnyIo

Transports == {[kind |-> k, blocks |-> MaxBlocks] : k \in {"partial", "any"}}

CnIdle ==
    /\ net = [kind |-> "partial", blocks |-> MaxBlocks]
    /\ conn = [state |-> "idle"]

\* no socket loop and no single-threaded client
AppIdle ==
    /\ handles = <<>>
    /\ sock = [pc |-> "idle"]
    /\ client = [state |-> "idle"]

OutInit ==
    /\ tx = MqttStreamer_with_buffer_size(TxCap)
    /\ sentBytes = <<>>
    /\ queued = <<>>
    /\ txLast = [op |-> "new", writes |-> 0]
    /\ net \in Transports
    /\ conn = [state |-> "idle"]

OutIdle ==
    /\ tx = MqttStreamer_with_buffer_size(1)
    /\ sentBytes = <<>>
    /\ queued = <<>>
    /\ txLast = [op |-> "new", writes |-> 0]

ConnWrite ==
    /\ txLast.writes < MaxWrites
    /\ \E p \in ClientPackets(txLast.writes + 1) :
        LET r == MqttConnection_write(tx, p) IN
        /\ tx' = r.buf
        /\ queued' = IF r.res = "Ok" THEN queued \o encode(p) ELSE queued
        /\ txLast' = [op |-> "write", writes |-> txLast.writes + 1, res |-> r.res,
                      len |-> encoded_length(p)]
        /\ UNCHANGED sentBytes
        /\ UNCHANGED notOut

SendTask ==
    \E o \in send_task(tx, IoOf(net)) :
        /\ tx' = o.buf
        /\ sentBytes' = sentBytes \o o.out
        /\ txLast' = [op |-> "send_task", writes |-> txLast.writes, res |-> o.res,
                      ret |-> o.ret, out |-> o.out]
        /\ UNCHANGED queued
        /\ UNCHANGED notOut

ConnNext == ConnWrite \/ SendTask

(***************************************************************************)
(* C3  Wire order: whatever the transport accepts, blocks on or is         *)
(* interrupted at, the bytes it has accepted are at all times a prefix of  *)
(* the encodings of the packets whose write succeeded, in call order.      *)
(***************************************************************************)
C3_WireOrder == net.kind = "partial" => IsPrefix(sentBytes, queued)


(***************************************************************************)
(* raiot-mqtt: MqttConnector::connect and MqttConnectionInProgress         *)
(***************************************************************************)
\* the CONNECT packet handed to connect (its variable header abbreviated)
CONNECT == [type |-> 1, flags |-> 0, body |-> <<0, 4, 77, 81>>]

\* ConnectReturnCode::ConnectionAccepted
ConnectionAccepted == 0

\* ConnectReturnCode::NotAuthorized
NotAuthorized == 5

\* the loop of send_next: every way it can run against the transport
RECURSIVE send_next_loop(_, _, _, _)
send_next_loop(b, out, fuel, env) ==
    LET again(o, f) ==
            IF f < 0 THEN {}
            ELSE UNION {send_next_loop(o.buf, acc, f, env) : acc \in {out \o o.out}}
        after(o) ==
            IF o.res = "Ok" THEN
                IF is_empty(o.buf)
                THEN {[buf |-> o.buf, out |-> out \o o.out, res |-> "Ok"]}
                ELSE again(o, IF o.ret > 0 THEN fuel ELSE fuel - 1)
            ELSE IF o.res = "WouldBlock"
            THEN {[buf |-> o.buf, out |-> out \o o.out, res |-> "WouldBlock"]}
            ELSE IF o.res = "Interrupted" THEN again(o, fuel - 1)
            ELSE {[buf |-> o.buf, out |-> out \o o.out, res |-> o.res]}
    IN UNION {after(o) : o \in write_into(b, env)}

send_next(b, env) == send_next_loop(b, <<>>, MaxSpin, env)

\* a slip: a read of 0 bytes and a failed read end the loop like WouldBlock
RECURSIVE connect_read_loop_m(_, _, _, _)
connect_read_loop_m(b, src, fuel, env) ==
    LET after(o) ==
            IF o.res = "Ok" /\ o.ret > 0
            THEN connect_read_loop_m(o.buf, o.src, fuel, env)
            ELSE IF o.res = "Interrupted"
            THEN IF fuel = 0 THEN {} ELSE connect_read_loop_m(o.buf, o.src, fuel - 1, env)
            ELSE IF o.res = "WriteZero"
            THEN {[buf |-> o.buf, src |-> o.src, res |-> o.res, starved |-> FALSE]}
            ELSE {[buf |-> o.buf, src |-> o.src, res |-> "break",
                   starved |-> o.res = "WouldBlock" /\ o.src # <<>>]}
    IN UNION {after(o) : o \in append_from_reader(b, src, env)}

\* the read loop of complete: until the transport would block, or an error
RECURSIVE connect_read_loop(_, _, _, _)
connect_read_loop(b, src, fuel, env) ==
    LET after(o) ==
            IF o.res = "Ok" THEN
                IF o.ret = 0
                THEN {[buf |-> o.buf, src |-> o.src, res |-> "ConnectionAborted",
                       starved |-> FALSE]}
                ELSE connect_read_loop(o.buf, o.src, fuel, env)
            ELSE IF o.res = "Interrupted"
            THEN IF fuel = 0 THEN {} ELSE connect_read_loop(o.buf, o.src, fuel - 1, env)
            ELSE IF o.res = "WouldBlock"
            THEN {[buf |-> o.buf, src |-> o.src, res |-> "break",
                   starved |-> o.src # <<>>]}
            ELSE {[buf |-> o.buf, src |-> o.src, res |-> o.res, starved |-> FALSE]}
    IN UNION {after(o) : o \in append_from_reader(b, src, env)}

\* a slip: the return code is taken from the acknowledge-flags byte
process_connack_flags(packet) ==
    IF packet.body[2] = ConnectionAccepted
    THEN [res |-> "Connected"]
    ELSE [res |-> "ConnectFailed", code |-> packet.body[1]]

\* process_connack taking every return code for a refusal
process_connack_m(packet) ==
    [res |-> "ConnectFailed", code |-> packet.body[2]]

\* process_connack
process_connack(packet) ==
    IF packet.body[2] = ConnectionAccepted
    THEN [res |-> "Connected"]
    ELSE [res |-> "ConnectFailed", code |-> packet.body[2]]

\* what complete() does once the CONNECT has left: read, then look for a packet
await_connack(t, out, b, src, env) ==
    LET done(r, b1, src1, starved) ==
            [tx |-> t, out |-> out, rx |-> b1, src |-> src1, starved |-> starved] @@ r
        after(o) ==
            IF o.res # "break"
            THEN done([res |-> "IOError", kind |-> o.res], o.buf, o.src, FALSE)
            ELSE
                LET g == get_next_packet(o.buf) IN
                IF g.res = "None" THEN done([res |-> "WouldBlock"], g.buf, o.src, o.starved)
                ELSE IF g.res = "Packet" /\ g.packet.type = 2
                THEN done(process_connack(g.packet), g.buf, o.src, FALSE)
                ELSE done([res |-> "ProtocolViolation"], g.buf, o.src, FALSE)
    IN {after(o) : o \in connect_read_loop(b, src, MaxSpin, env)}

\* a slip: the deadline is looked at only once the CONNECT has left
complete_late(t, b, src, expired, env) ==
    IF ~is_empty(t) THEN
        LET after(o) ==
                IF o.res = "WouldBlock"
                THEN {[tx |-> o.buf, out |-> o.out, rx |-> b, src |-> src,
                       starved |-> TRUE, res |-> "WouldBlock"]}
                ELSE IF o.res = "Ok" THEN await_connack(o.buf, o.out, b, src, env)
                ELSE {[tx |-> o.buf, out |-> o.out, rx |-> b, src |-> src,
                       starved |-> FALSE, res |-> "IOError", kind |-> o.res]}
        IN UNION {after(o) : o \in send_next(t, env)}
    ELSE IF expired
    THEN {[tx |-> t, out |-> <<>>, rx |-> b, src |-> src, starved |-> FALSE,
           res |-> "IOError", kind |-> "TimedOut"]}
    ELSE await_connack(t, <<>>, b, src, env)

\* MqttConnectionInProgress::complete: every way one call can run
complete(t, b, src, expired, env) ==
    IF expired
    THEN {[tx |-> t, out |-> <<>>, rx |-> b, src |-> src, starved |-> FALSE,
           res |-> "IOError", kind |-> "TimedOut"]}
    ELSE IF ~is_empty(t) THEN
        LET after(o) ==
                IF o.res = "WouldBlock"
                THEN {[tx |-> o.buf, out |-> o.out, rx |-> b, src |-> src,
                       starved |-> TRUE, res |-> "WouldBlock"]}
                ELSE IF o.res = "Ok" THEN await_connack(o.buf, o.out, b, src, env)
                ELSE {[tx |-> o.buf, out |-> o.out, rx |-> b, src |-> src,
                       starved |-> FALSE, res |-> "IOError", kind |-> o.res]}
        IN UNION {after(o) : o \in send_next(t, env)}
    ELSE await_connack(t, <<>>, b, src, env)

(***************************************************************************)
(* Connecting: connect() queues the CONNECT, the broker's answer is on its *)
(* way, and complete() is called again and again until it returns a        *)
(* connection or an error.  The deadline may pass at any time.             *)
(***************************************************************************)
\* what the broker answers a CONNECT with
BrokerAnswers ==
    {<<CONNACK(ConnectionAccepted)>>, <<CONNACK(NotAuthorized)>>, <<PINGRESP>>,
     <<CONNACK(ConnectionAccepted), PINGRESP>>}

ConnectInit ==
    /\ tx = MqttStreamer_with_buffer_size(1)
    /\ \E n \in MIN_BUFFER_SIZE..(MIN_BUFFER_SIZE + RxExtra) :
           rx = MqttPacketizer_with_buffer_size(n)
    /\ pkts \in BrokerAnswers
    /\ wire = encode_all(pkts)
    /\ delivered = <<>>
    /\ rxLast = [op |-> "new"]
    /\ sentBytes = <<>>
    /\ queued = <<>>
    /\ txLast = [op |-> "new", writes |-> 0]
    /\ net \in Transports
    /\ conn = [state |-> "new", expired |-> FALSE, calls |-> 0, last |-> "none",
               code |-> {}]

\* MqttConnector::connect with a TX buffer of TxCap - 1 .. TxCap + 1 bytes
Connect ==
    /\ conn.state = "new"
    /\ \E n \in (TxCap - 1)..(TxCap + 1) :
        LET r == write_packet(MqttStreamer_with_buffer_size(n), CONNECT) IN
        /\ tx' = r.buf
        /\ queued' = IF r.res = "Ok" THEN encode(CONNECT) ELSE queued
        /\ conn' = IF r.res = "Ok"
                   THEN [conn EXCEPT !.state = "connecting"]
                   ELSE [conn EXCEPT !.state = "failed", !.last = r.res]
    /\ UNCHANGED <<sentBytes, txLast, net, inVars, ringVars, appVars>>

\* one call of complete()
Complete ==
    /\ conn.state = "connecting"
    /\ \E o \in complete(tx, rx, wire, conn.expired, IoOf(net)) :
        /\ o.starved => net.blocks > 0
        /\ net' = [net EXCEPT !.blocks = IF o.starved THEN @ - 1 ELSE @]
        /\ tx' = o.tx
        /\ rx' = o.rx
        /\ wire' = o.src
        /\ sentBytes' = sentBytes \o o.out
        /\ conn' = [conn EXCEPT
                      !.state = IF o.res = "WouldBlock" THEN "connecting"
                                ELSE IF o.res = "Connected" THEN "connected"
                                ELSE "failed",
                      !.calls = IF @ < 2 THEN @ + 1 ELSE @,
                      !.last = IF o.res = "IOError" THEN o.kind ELSE o.res,
                      !.code = IF o.res = "ConnectFailed" THEN {o.code} ELSE @]
    /\ UNCHANGED <<pkts, delivered, rxLast, queued, txLast, ringVars, appVars>>

\* the connect timeout elapses
Expire ==
    /\ conn.state = "connecting"
    /\ ~conn.expired
    /\ conn' = [conn EXCEPT !.expired = TRUE]
    /\ UNCHANGED <<net, inVars, outVars, ringVars, appVars>>

ConnectNext == Connect \/ Complete \/ Expire

\* a call of complete() would change something: ENABLED <<Complete>>_vars.
\* A call that changes nothing is one that finds the CONNECT sent, nothing to
\* read and no whole packet buffered, for at least the third time.
CompleteEnabled ==
    /\ conn.state = "connecting"
    /\ \/ conn.calls < 2
       \/ conn.expired
       \/ ~is_empty(tx)
       \/ wire # <<>>
       \/ available_space(rx) = 0
       \/ get_next_packet(rx).res # "None"

\* a step of complete(): the only other step while connecting is Expire
Completes == conn.state = "connecting" /\ conn'.expired = conn.expired

(***************************************************************************)
(* C4  Connect under partial I/O: when the transport takes the CONNECT and *)
(* gives a CONNACK(ConnectionAccepted) in chunks of at least one byte,     *)
(* blocking finitely often, complete() called again and again before the  *)
(* deadline ends by returning a connection, and every call before that one *)
(* returns WouldBlock.                                                     *)
(***************************************************************************)
C4_Scenario ==
    /\ net.kind = "partial"
    /\ pkts = <<CONNACK(ConnectionAccepted)>>
    /\ conn.state # "new"
    /\ queued # <<>>

C4_ConnectsUnderPartialIo ==
    /\ C4_Scenario ~> (conn.state = "connected" \/ conn.expired)
    /\ [](C4_Scenario /\ ~conn.expired =>
              /\ conn.state \in {"connecting", "connected"}
              /\ conn.last \in {"none", "WouldBlock", "Connected"}
              /\ conn.state = "connected" => sentBytes = encode(CONNECT))

\* connected after earlier calls that blocked on the write and on the read
C4_Witness ==
    /\ C4_Scenario
    /\ conn.state = "connected"
    /\ conn.calls >= 2
    /\ net.blocks = 0

(***************************************************************************)
(* raiot-client: IotSocketTx::send, MessageFuture and IotSocketCtl         *)
(*                                                                         *)
(* A MessageState (Arc<Mutex<..>>) is an index into `handles`; every entry *)
(* holds the message, the shared state and the future's side of it.  An    *)
(* Option is the empty set or a singleton.  Messages from the hub are      *)
(* taken as IotCodec::decode_packet gives them.                            *)
(***************************************************************************)
\* MsgToHub, as far as the socket loop looks at it: the kind and packet_id()
MsgsToHub ==
    {[kind |-> "Telemetry", packet_id |-> p] : p \in {{}} \cup {{i} : i \in 1..MaxPid}}
    \cup {[kind |-> "Subscribe", packet_id |-> {i}] : i \in 1..MaxPid}

\* MsgFromHub: acknowledgements with any packet-id, and everything else
MsgsFromHub ==
    {[kind |-> "PublicationSucceeded", packet_id |-> i] : i \in 1..MaxPid}
    \cup {[kind |-> "SubscriptionResponseMessage", packet_id |-> i, result |-> r] :
             i \in 1..MaxPid, r \in {"Ok", "Failure"}}
    \cup {[kind |-> "CloudToDeviceMessage"]}

\* what the status means to poll: this status ends the future
PollsReady(h) ==
    \/ h.status \in {"SendFailed", "TimedOut", "Acknowledged", "Rejected"}
    \/ h.status = "Sent" /\ ~h.ack_required

\* MessageFuture::poll, by the executor's rules: a first poll, or one after a wake
MessageFuture_poll(h) ==
    IF PollsReady(h)
    THEN [h EXCEPT !.polled = "Ready"]
    ELSE [h EXCEPT !.waker = TRUE, !.polled = "Pending", !.woken = FALSE]

\* take_next_outgoing_msg receiving from the queue although a message is deferred
take_next_outgoing_msg_m(s) ==
    LET s1 == IF s.outgoing_queue # <<>>
              THEN [s EXCEPT !.tx_buf = {Head(s.outgoing_queue)},
                             !.outgoing_queue = Tail(s.outgoing_queue)]
              ELSE s
    IN [sock |-> [s1 EXCEPT !.tx_buf = {}], msg |-> s1.tx_buf]

\* take_next_outgoing_msg
take_next_outgoing_msg(s) ==
    LET s1 == IF s.tx_buf = {} /\ s.outgoing_queue # <<>>
              THEN [s EXCEPT !.tx_buf = {Head(s.outgoing_queue)},
                             !.outgoing_queue = Tail(s.outgoing_queue)]
              ELSE s
    IN [sock |-> [s1 EXCEPT !.tx_buf = {}], msg |-> s1.tx_buf]

\* IoStream::try_send: write_all until done (it retries Interrupted itself)
try_send == {"Ok", "WouldBlock", "ConnectionReset"}

\* send_next, given what try_send returns
IotSocketCtl_send_next(s, hs, send_result) ==
    LET t == take_next_outgoing_msg(s) IN
    IF t.msg = {} THEN [sock |-> t.sock, handles |-> hs, ret |-> FALSE, msg |-> {}]
    ELSE
        LET h == CHOOSE x \in t.msg : TRUE
            ids == hs[h].msg.packet_id
            s1 == IF ids # {} /\ ~(ids \subseteq DOMAIN t.sock.awaiting_acks)
                  THEN [t.sock EXCEPT !.awaiting_acks =
                            [p \in DOMAIN @ \cup ids |-> IF p \in ids THEN h ELSE @[p]]]
                  ELSE t.sock
        IN IF send_result = "Ok"
           THEN [sock |-> s1, handles |-> [hs EXCEPT ![h].status = "Sent"],
                 ret |-> TRUE, msg |-> t.msg]
           ELSE IF send_result = "WouldBlock"
           THEN [sock |-> [s1 EXCEPT !.tx_buf = t.msg], handles |-> hs,
                 ret |-> FALSE, msg |-> t.msg]
           ELSE IF send_result = "Interrupted"
           THEN [sock |-> [s1 EXCEPT !.tx_buf = t.msg], handles |-> hs,
                 ret |-> TRUE, msg |-> t.msg]
           ELSE [sock |-> s1, handles |-> [hs EXCEPT ![h].status = "SendFailed"],
                 ret |-> TRUE, msg |-> t.msg]

\* handle_ack setting the status and leaving the stored waker where it is
handle_ack_quiet(s, hs, packet_id, result) ==
    IF packet_id \in DOMAIN s.awaiting_acks THEN
        LET h == s.awaiting_acks[packet_id] IN
        [sock |-> [s EXCEPT !.awaiting_acks = [k \in DOMAIN @ \ {packet_id} |-> @[k]]],
         handles |-> [hs EXCEPT ![h].status = result]]
    ELSE [sock |-> s, handles |-> hs]

\* handle_ack resolving whatever entry the map holds first
handle_ack_m(s, hs, packet_id, result) ==
    IF DOMAIN s.awaiting_acks # {} THEN
        LET p == CHOOSE k \in DOMAIN s.awaiting_acks :
                     \A j \in DOMAIN s.awaiting_acks : k <= j
            h == s.awaiting_acks[p]
        IN [sock |-> [s EXCEPT !.awaiting_acks = [k \in DOMAIN @ \ {p} |-> @[k]]],
            handles |-> [hs EXCEPT ![h].status = result, ![h].waker = FALSE,
                                   ![h].woken = @ \/ hs[h].waker]]
    ELSE [sock |-> s, handles |-> hs]

\* handle_ack
handle_ack(s, hs, packet_id, result) ==
    IF packet_id \in DOMAIN s.awaiting_acks THEN
        LET h == s.awaiting_acks[packet_id] IN
        [sock |-> [s EXCEPT !.awaiting_acks = [k \in DOMAIN @ \ {packet_id} |-> @[k]]],
         handles |-> [hs EXCEPT ![h].status = result, ![h].waker = FALSE,
                                ![h].woken = @ \/ hs[h].waker]]
    ELSE [sock |-> s, handles |-> hs]

\* handle_incoming_msg
handle_incoming_msg(s, hs, msg) ==
    IF msg.kind = "SubscriptionResponseMessage"
    THEN handle_ack(s, hs, msg.packet_id,
                    IF msg.result = "Ok" THEN "Acknowledged" ELSE "Rejected")
    ELSE IF msg.kind = "PublicationSucceeded"
    THEN handle_ack(s, hs, msg.packet_id, "Acknowledged")
    ELSE [sock |-> [s EXCEPT !.incoming_queue = Append(@, msg)], handles |-> hs]

\* what one call of recv_next finds: a whole packet, decoded; nothing to read
\* (Ok(0) or WouldBlock); an interrupted read; any other read error
RecvInputs ==
    MsgsFromHub \cup {[kind |-> k] : k \in {"Nothing", "Interrupted", "Error"}}

\* recv_next
IotSocketCtl_recv_next(s, hs, input) ==
    IF input.kind = "Nothing" THEN [sock |-> s, handles |-> hs, ret |-> "false"]
    ELSE IF input.kind = "Interrupted" THEN [sock |-> s, handles |-> hs, ret |-> "true"]
    ELSE IF input.kind = "Error" THEN [sock |-> s, handles |-> hs, ret |-> "panic"]
    ELSE handle_incoming_msg(s, hs, input) @@ [ret |-> "true"]

(***************************************************************************)
(* The socket thread runs socket_loop; the user's threads send messages    *)
(* and poll their futures; the hub acknowledges what it likes.             *)
(***************************************************************************)
SockInit ==
    /\ handles = <<>>
    /\ sock = [pc |-> "send", outgoing_queue |-> <<>>, tx_buf |-> {},
               awaiting_acks |-> [p \in {} |-> 0], incoming_queue |-> <<>>,
               last |-> [op |-> "new"]]
    /\ client = [state |-> "idle"]

\* IotSocketTx::send
Send ==
    /\ sock.pc # "panicked"
    /\ Len(handles) < MaxMsgs
    /\ \E m \in MsgsToHub :
        /\ handles' = Append(handles,
                             [msg |-> m, status |-> "Pending", waker |-> FALSE,
                              ack_required |-> m.packet_id # {},
                              polled |-> "no", woken |-> FALSE])
        /\ sock' = [sock EXCEPT !.outgoing_queue = Append(@, Len(handles) + 1)]
    /\ UNCHANGED <<client, ringVars, inVars, outVars, cnVars>>

\* the executor polls a future: for the first time, or after its waker was woken
Poll ==
    /\ \E h \in DOMAIN handles :
        /\ handles[h].polled # "Ready"
        /\ handles[h].polled = "no" \/ handles[h].woken
        /\ handles' = [handles EXCEPT ![h] = MessageFuture_poll(@)]
    /\ UNCHANGED <<sock, client, ringVars, inVars, outVars, cnVars>>

\* socket_loop: one call of send_next
SendNext ==
    /\ sock.pc = "send"
    /\ \E r \in try_send :
        LET o == IotSocketCtl_send_next(sock, handles, r) IN
        /\ handles' = o.handles
        /\ sock' = [o.sock EXCEPT
                      !.pc = IF o.ret THEN "send" ELSE "recv",
                      !.last = [op |-> "send"]]
    /\ UNCHANGED <<client, ringVars, inVars, outVars, cnVars>>

\* socket_loop: one call of recv_next
RecvNext ==
    /\ sock.pc = "recv"
    /\ \E input \in RecvInputs :
        LET o == IotSocketCtl_recv_next(sock, handles, input) IN
        /\ Len(o.sock.incoming_queue) <= MaxIn
        /\ handles' = o.handles
        /\ sock' = [o.sock EXCEPT
                      !.pc = IF o.ret = "true" THEN "recv"
                             ELSE IF o.ret = "false" THEN "send" ELSE "panicked",
                      !.last = IF "packet_id" \in DOMAIN input
                               THEN [op |-> "ack", packet_id |-> input.packet_id]
                               ELSE [op |-> "recv"]]
    /\ UNCHANGED <<client, ringVars, inVars, outVars, cnVars>>

SockNext == Send \/ Poll \/ SendNext \/ RecvNext

(***************************************************************************)
(* C5  ACK correlation exactness: while the messages handed to send carry  *)
(* distinct packet-ids, an acknowledgement with packet-id p changes the    *)
(* status of the handle of the message with packet-id p and of no other:   *)
(* a message that is Sent and awaits its acknowledgement is registered     *)
(* under its packet-id, and the step that handles an acknowledgement p     *)
(* resolves the Sent handle of p and leaves every other status alone.      *)
(***************************************************************************)
DistinctIds ==
    \A i, j \in DOMAIN handles :
        i # j => handles[i].msg.packet_id \cap handles[j].msg.packet_id = {}

\* this step handles an acknowledgement with packet-id p that finds an entry,
\* or is the first step since an acknowledgement p was handled
AckStep(p) ==
    /\ sock'.last = [op |-> "ack", packet_id |-> p]
    /\ sock'.last # sock.last \/ sock'.awaiting_acks # sock.awaiting_acks

C5_AckExact ==
    /\ [](DistinctIds =>
            \A h \in DOMAIN handles :
                handles[h].status = "Sent" /\ handles[h].ack_required =>
                    \E p \in handles[h].msg.packet_id :
                        /\ p \in DOMAIN sock.awaiting_acks
                        /\ sock.awaiting_acks[p] = h)
    /\ [][DistinctIds =>
            \A p \in 1..MaxPid : AckStep(p) =>
                \A h \in DOMAIN handles :
                    /\ handles'[h].status # handles[h].status =>
                           handles[h].msg.packet_id = {p}
                    /\ handles[h].msg.packet_id = {p} /\ handles[h].status = "Sent" =>
                           handles'[h].status \in {"Acknowledged", "Rejected"}]_vars

\* two messages in flight, the second acknowledged before the first
C5_Witness ==
    /\ DistinctIds
    /\ Len(handles) = 2
    /\ handles[1].status = "Sent" /\ handles[1].ack_required
    /\ handles[2].status = "Acknowledged"
    /\ sock.last.op = "ack"
    /\ sock.last.packet_id \in handles[2].msg.packet_id

(***************************************************************************)
(* C8  Completion-handle monotonicity: once a handle's status is terminal  *)
(* (SendFailed, Acknowledged, Rejected or TimedOut), no step of the socket *)
(* loop changes it.                                                        *)
(***************************************************************************)
C8_TerminalKept ==
    [][\A h \in DOMAIN handles :
          handles[h].status \in {"SendFailed", "Acknowledged", "Rejected", "TimedOut"} =>
              handles'[h].status = handles[h].status]_vars

(***************************************************************************)
(* C9  Wake-up on completion: whenever the socket thread has moved a       *)
(* handle to a status for which poll returns Ready, the waker an earlier   *)
(* poll registered has been invoked: no handle is in such a status with    *)
(* its waker still waiting.                                                *)
(***************************************************************************)
C9_WokenOnCompletion ==
    \A h \in DOMAIN handles : PollsReady(handles[h]) => ~handles[h].waker

(***************************************************************************)
(* raiot-stclient: IotClient and SubState                                  *)
(*                                                                         *)
(* A SubState is [st |-> "Unsubscribed"], [st |-> "Subscribing", handler,  *)
(* error_handler, packet_id] or [st |-> "Subscribed", handler].  The       *)
(* user's closures are 1 and 2; 0 is a closure the client makes itself.    *)
(* Topic filters are abbreviated to one byte.                              *)
(***************************************************************************)
\* u16::MAX, the largest PacketsNumerator value
U16_MAX == 65535

\* PacketsNumerator::next: the addition wraps, or panics where overflow is checked
PacketsNumerator_next(value) ==
    IF value = U16_MAX
    THEN {[value |-> 0, panic |-> FALSE], [value |-> value, panic |-> TRUE]}
    ELSE {[value |-> value + 1, panic |-> FALSE]}

\* the fields of IotClient that hold a SubState, in the order process_sub_res tries them
Families == <<"twin_read", "c2d", "dmi", "twin_updates">>

\* IotCodec::encode_message of a subscription: SUBSCRIBE, one filter
SUBSCRIBE(packet_id, family, mode) ==
    [type |-> 8, flags |-> 2,
     body |-> <<packet_id \div 256, packet_id % 256,
                CHOOSE i \in 1..4 : Families[i] = family,
                IF mode = "AtLeastOnce" THEN 1 ELSE 0>>]

\* IotCodec::encode_message of a ReadTwinReq: PUBLISH, QoS 1
GET_TWIN(packet_id) ==
    [type |-> 3, flags |-> 2, body |-> <<5, packet_id \div 256, packet_id % 256>>]

\* try_complete keeping the subscription pending when the hub refuses it
try_complete_keep(state, res) ==
    IF state.st = "Subscribing" /\ state.packet_id = res.packet_id
    THEN IF res.result = "Ok"
         THEN [state |-> [st |-> "Subscribed", handler |-> state.handler],
               ret |-> TRUE, errors |-> <<>>]
         ELSE [state |-> state, ret |-> TRUE, errors |-> <<>>]
    ELSE [state |-> state, ret |-> FALSE, errors |-> <<>>]

\* try_complete not comparing the packet-ids
try_complete_any(state, res) ==
    IF state.st = "Subscribing"
    THEN IF res.result = "Ok"
         THEN [state |-> [st |-> "Subscribed", handler |-> state.handler],
               ret |-> TRUE, errors |-> <<>>]
         ELSE [state |-> [st |-> "Unsubscribed"], ret |-> TRUE,
               errors |-> <<[error_handler |-> state.error_handler,
                             error |-> res.result]>>]
    ELSE [state |-> state, ret |-> FALSE, errors |-> <<>>]

\* SubState::try_complete; errors: the calls of error_handler it makes
try_complete(state, res) ==
    IF state.st = "Subscribing" /\ state.packet_id = res.packet_id
    THEN IF res.result = "Ok"
         THEN [state |-> [st |-> "Subscribed", handler |-> state.handler],
               ret |-> TRUE, errors |-> <<>>]
         ELSE [state |-> [st |-> "Unsubscribed"], ret |-> TRUE,
               errors |-> <<[error_handler |-> state.error_handler,
                             error |-> res.result]>>]
    ELSE [state |-> state, ret |-> FALSE, errors |-> <<>>]

\* process_sub_res: the first family that completes ends it
RECURSIVE process_sub_res(_, _, _)
process_sub_res(c, res, i) ==
    IF i > Len(Families) THEN [client |-> c, errors |-> <<>>]
    ELSE LET r == try_complete(c[Families[i]], res) IN
         IF r.ret
         THEN [client |-> [c EXCEPT ![Families[i]] = r.state], errors |-> r.errors]
         ELSE process_sub_res(c, res, i + 1)

\* process_msg handing a message to the handler of a family that is still Subscribing
process_msg_m(c, msg) ==
    LET to(family) ==
            [client |-> c, errors |-> <<>>,
             invoked |-> IF c[family].st # "Unsubscribed"
                         THEN <<c[family].handler>> ELSE <<>>]
    IN IF msg.kind = "SubscriptionResponseMessage"
       THEN process_sub_res(c, msg, 1) @@ [invoked |-> <<>>]
       ELSE IF msg.kind = "CloudToDeviceMessage" THEN to("c2d")
       ELSE IF msg.kind = "DirectMethodInvocation" THEN to("dmi")
       ELSE IF msg.kind = "DesiredPropertiesUpdated" THEN to("twin_updates")
       ELSE [client |-> c, errors |-> <<>>, invoked |-> <<>>]

\* process_msg; invoked: the message handlers it calls
process_msg(c, msg) ==
    LET to(family) ==
            [client |-> c, errors |-> <<>>,
             invoked |-> IF c[family].st = "Subscribed"
                         THEN <<c[family].handler>> ELSE <<>>]
    IN IF msg.kind = "SubscriptionResponseMessage"
       THEN process_sub_res(c, msg, 1) @@ [invoked |-> <<>>]
       ELSE IF msg.kind = "CloudToDeviceMessage" THEN to("c2d")
       ELSE IF msg.kind = "DirectMethodInvocation" THEN to("dmi")
       ELSE IF msg.kind = "DesiredPropertiesUpdated" THEN to("twin_updates")
       ELSE [client |-> c, errors |-> <<>>, invoked |-> <<>>]

\* a subscribe request with packet-id n: sub_c2d, sub_dmi and sub_twin_updates
\* set the state and then write (state_first), sub_twin_reads writes first;
\* connection.write(..).unwrap() panics when the TX ring has no room
subscribe(c, t, family, mode, handler, error_handler, state_first, n) ==
    IF n.panic THEN [client |-> [c EXCEPT !.state = "panicked"], tx |-> t, wrote |-> <<>>]
    ELSE
        LET c1 == [c EXCEPT !.packets_numerator = n.value]
            sub == [c1 EXCEPT ![family] =
                       [st |-> "Subscribing", handler |-> handler,
                        error_handler |-> error_handler, packet_id |-> n.value]]
            w == MqttConnection_write(t, SUBSCRIBE(n.value, family, mode))
        IN IF w.res = "Ok"
           THEN [client |-> sub, tx |-> w.buf,
                 wrote |-> encode(SUBSCRIBE(n.value, family, mode))]
           ELSE [client |-> [(IF state_first THEN sub ELSE c1) EXCEPT !.state = "panicked"],
                 tx |-> w.buf, wrote |-> <<>>]

\* request_twin
request_twin(c, t, n) ==
    IF n.panic THEN [client |-> [c EXCEPT !.state = "panicked"], tx |-> t, wrote |-> <<>>]
    ELSE
        LET c1 == [c EXCEPT !.packets_numerator = n.value]
            w == MqttConnection_write(t, GET_TWIN(n.value))
        IN IF w.res = "Ok"
           THEN [client |-> c1, tx |-> w.buf, wrote |-> encode(GET_TWIN(n.value))]
           ELSE [client |-> [c1 EXCEPT !.state = "panicked"], tx |-> w.buf, wrote |-> <<>>]

(***************************************************************************)
(* The single-threaded client: the user subscribes and reads the twin,     *)
(* process() sends what is queued and handles what the hub has sent.  The  *)
(* TX ring has room for one SUBSCRIBE, so a request meets it with and      *)
(* without room; the histories of the outbound bytes are not kept here.    *)
(***************************************************************************)
\* what the hub sends, as IotCodec::decode_packet gives it
HubMsgs ==
    {[kind |-> "SubscriptionResponseMessage", packet_id |-> i, result |-> r] :
        i \in 1..MaxSubs, r \in {"Ok", "Failure"}}
    \cup {[kind |-> k] : k \in {"CloudToDeviceMessage", "DirectMethodInvocation",
                                "DesiredPropertiesUpdated", "TwinResponseMessage"}}

SubInit ==
    /\ client = [state |-> "running", packets_numerator |-> 0,
                 twin_read |-> [st |-> "Unsubscribed"], dmi |-> [st |-> "Unsubscribed"],
                 twin_updates |-> [st |-> "Unsubscribed"], c2d |-> [st |-> "Unsubscribed"],
                 last |-> [op |-> "new"]]
    /\ tx = MqttStreamer_with_buffer_size(encoded_length(SUBSCRIBE(1, "c2d", "AtLeastOnce")))
    /\ sentBytes = <<>>
    /\ queued = <<>>
    /\ txLast = [op |-> "new", writes |-> 0]
    /\ net = [kind |-> "partial", blocks |-> MaxBlocks]
    /\ conn = [state |-> "idle"]
    /\ handles = <<>>
    /\ sock = [pc |-> "idle"]

\* the end of a request that ran as o, recorded as op
Requested(o, op) ==
    /\ client' = [o.client EXCEPT !.last = op]
    /\ tx' = o.tx
    /\ UNCHANGED <<sentBytes, queued, txLast, net, conn, handles, sock, ringVars, inVars>>

\* the closures the user passes as handlers
Handlers == {1, 2}

\* a request may start: the client runs and has packet-ids left within the bound
MayRequest == client.state = "running" /\ client.packets_numerator < MaxSubs

SubC2d ==
    /\ MayRequest
    /\ \E mode \in {"AtMostOnce", "AtLeastOnce"}, h \in Handlers, e \in Handlers,
          n \in PacketsNumerator_next(client.packets_numerator) :
        Requested(subscribe(client, tx, "c2d", mode, h, e, TRUE, n),
                  [op |-> "sub", family |-> "c2d", mode |-> mode,
                   handler |-> h, error_handler |-> e])

SubDmi ==
    /\ MayRequest
    /\ \E mode \in {"AtMostOnce", "AtLeastOnce"}, h \in Handlers,
          n \in PacketsNumerator_next(client.packets_numerator) :
        Requested(subscribe(client, tx, "dmi", mode, h, 0, TRUE, n),
                  [op |-> "sub", family |-> "dmi", mode |-> mode,
                   handler |-> h, error_handler |-> 0])

SubTwinUpdates ==
    /\ MayRequest
    /\ \E mode \in {"AtMostOnce", "AtLeastOnce"}, h \in Handlers,
          n \in PacketsNumerator_next(client.packets_numerator) :
        Requested(subscribe(client, tx, "twin_updates", mode, h, 0, TRUE, n),
                  [op |-> "sub", family |-> "twin_updates", mode |-> mode,
                   handler |-> h, error_handler |-> 0])

\* read_twin: request the twin, subscribe first, or wait for the SUBACK
ReadTwin ==
    /\ MayRequest
    /\ \E n \in PacketsNumerator_next(client.packets_numerator) :
        IF client.twin_read.st = "Subscribed"
        THEN Requested(request_twin(client, tx, n), [op |-> "request_twin"])
        ELSE IF client.twin_read.st = "Unsubscribed"
        THEN Requested(subscribe(client, tx, "twin_read", "AtLeastOnce", 0, 0, FALSE, n),
                       [op |-> "sub", family |-> "twin_read", mode |-> "AtLeastOnce",
                        handler |-> 0, error_handler |-> 0])
        ELSE Requested([client |-> client, tx |-> tx, wrote |-> <<>>], [op |-> "read_twin"])

\* process(): send_task(..).unwrap()
ProcessSend ==
    /\ client.state = "running"
    /\ \E o \in send_task(tx, IoOf(net)) :
        /\ tx' = o.buf
        /\ client' = [client EXCEPT !.state = IF o.res = "Ok" THEN @ ELSE "panicked",
                                    !.last = [op |-> "send_task"]]
    /\ UNCHANGED <<sentBytes, queued, txLast, net, conn, handles, sock, ringVars, inVars>>

\* process(): one packet read and handed to process_msg
ProcessMsg ==
    /\ client.state = "running"
    /\ \E msg \in HubMsgs :
        LET o == process_msg(client, msg) IN
        client' = [o.client EXCEPT
                      !.last = [op |-> "msg", errors |-> o.errors,
                                msg |-> IF "packet_id" \in DOMAIN msg THEN msg
                                        ELSE [kind |-> "other"]]]
    /\ UNCHANGED <<outVars, net, conn, handles, sock, ringVars, inVars>>

SubNext == SubC2d \/ SubDmi \/ SubTwinUpdates \/ ReadTwin \/ ProcessSend \/ ProcessMsg

(***************************************************************************)
(* C6  Subscription state transitions: a subscribe request that returns    *)
(* leaves its family Subscribing with the request's handler and            *)
(* error_handler and the packet-id just allotted, and the SUBSCRIBE at the *)
(* end of the TX ring; a SUBACK whose packet-id is that of a Subscribing   *)
(* family moves it, on success, to Subscribed with the handler it was      *)
(* subscribing with and, on failure, to Unsubscribed with exactly one call *)
(* of its error_handler.                                                   *)
(***************************************************************************)
\* this step is process_msg handling a message
MsgStep == client'.last.op = "msg" /\ client' # client

\* this step is process_msg handling a SUBACK
SubAckStep == MsgStep /\ client'.last.msg.kind = "SubscriptionResponseMessage"

C7_SubAckFootprint ==
    [][SubAckStep =>
          LET res == client'.last.msg
              Changed == {i \in DOMAIN Families :
                             client'[Families[i]] # client[Families[i]]}
          IN /\ Cardinality(Changed) <= 1
             /\ \A i \in Changed :
                   /\ client[Families[i]].st = "Subscribing"
                   /\ client[Families[i]].packet_id = res.packet_id
             /\ client'.packets_numerator = client.packets_numerator
             /\ client'.state = client.state
             /\ tx' = tx]_vars

\* a SUBACK for packet-id 1 while C2D subscribes with 2 and direct methods are on
C7_Witness ==
    /\ client.last.op = "msg"
    /\ client.last.msg.kind = "SubscriptionResponseMessage"
    /\ client.last.msg.packet_id = 1
    /\ client.c2d.st = "Subscribing"
    /\ client.c2d.packet_id = 2
    /\ client.dmi.st = "Subscribed"

(***************************************************************************)
(* C11: append_all_bytes(bytes) appends all of bytes when they fit the     *)
(* free space, and otherwise returns WriteZero with the read index, the    *)
(* write index, the full bit and the stored bytes as they were: it never   *)
(* writes a part of bytes.                                                 *)
(***************************************************************************)
C11_AtomicAppend ==
    [][ringLast'.op = "append_all_bytes" =>
          LET n == ringLast'.n
              before == into_vec(peek_remaining(rb))
              after == into_vec(peek_remaining(rb'))
          IN IF n <= available_space(rb)
             THEN /\ ringLast'.res = "Ok"
                  /\ after = before \o NextBytes(n)
                  /\ rb'.read = rb.read
             ELSE /\ ringLast'.res = "WriteZero"
                  /\ after = before
                  /\ rb'.read = rb.read
                  /\ rb'.write = rb.write
                  /\ rb'.full = rb.full]_vars

\* more bytes than the free space were offered to a ring that had room for
\* some of them, around the end of the storage
C11_Witness ==
    /\ ringLast.op = "append_all_bytes"
    /\ ringLast.res = "WriteZero"
    /\ available_space(rb) > 0
    /\ available_space(rb) < ringLast.n
    /\ rb.write + available_space(rb) > size(rb)

(***************************************************************************)
(* A view of the ring read through std::io::Read.  The view borrows the    *)
(* ring, so no operation of the ring runs while it is read; the next       *)
(* operation of the ring drops it.  Next to the view the ring returned,    *)
(* the Consecutive view of the same bytes (as they were appended) is read  *)
(* with the same requests.                                                 *)
(***************************************************************************)
\* read_bytes(n) or peek(n): the view handed to the caller
View ==
    \E n \in 1..valid_length(rb), op \in {"read_bytes", "peek"} :
        LET s == IF op = "peek" THEN peek(rb, n) ELSE read_bytes(rb, n).slice
            bytes == SubSeq(appended, Len(taken) + 1, Len(taken) + n)
        IN
        /\ rb' = IF op = "peek" THEN rb ELSE read_bytes(rb, n).buf
        /\ taken' = IF op = "peek" THEN taken ELSE taken \o into_vec(s)
        /\ ringLast' = [op |-> "view", of |-> op, kind |-> s.kind, first |-> Len(s.p1),
                        slice |-> s, got |-> <<>>,
                        ref |-> [kind |-> "Consecutive", p1 |-> bytes, p2 |-> <<>>],
                        refgot |-> <<>>, n |-> 0, reads |-> 0]
        /\ UNCHANGED appended
        /\ UNCHANGED notRing

\* one read(buf) on the view, with a buffer of any length
SliceRead ==
    /\ ringLast.op = "view"
    /\ \E len \in 0..(MaxCap + 1) :
        LET r == BufferSlice_read(ringLast.slice, len)
            c == BufferSlice_read(ringLast.ref, len)
        IN ringLast' = [ringLast EXCEPT !.slice = r.slice,
                                        !.got = @ \o r.bytes,
                                        !.ref = c.slice,
                                        !.refgot = @ \o c.bytes,
                                        !.n = Len(r.bytes),
                                        !.reads = Min(@ + 1, MaxCap)]
    /\ UNCHANGED <<rb, appended, taken>>
    /\ UNCHANGED notRing

(***************************************************************************)
(* C12: a view that spans the end of the storage (Splitted), read with any *)
(* sequence of request sizes, yields the same bytes in the same order as   *)
(* the Consecutive view of the same bytes read with the same requests.     *)
(***************************************************************************)
C12_WrapTransparent ==
    (ringLast.op = "view" /\ ringLast.kind = "Splitted") =>
        /\ ringLast.got = ringLast.refgot
        /\ into_vec(ringLast.slice) = into_vec(ringLast.ref)

\* a wrapped view of three bytes, two of them before the end of the storage,
\* read in two requests: one byte, then two bytes across the end
C12_Witness ==
    /\ ringLast.op = "view"
    /\ ringLast.kind = "Splitted"
    /\ ringLast.first = 2
    /\ ringLast.reads = 2
    /\ ringLast.n = 2
    /\ Len(ringLast.got) = 3
    /\ into_vec(ringLast.slice) = <<>>

(***************************************************************************)
(* The framer, with the smallest or the largest of its buffers, fed a      *)
(* stream that ends in a packet larger than the buffer: PINGRESPs and      *)
(* PUBACKs, then a PUBLISH one byte longer than the buffer or one of 131   *)
(* bytes (with a fixed header of three bytes).                             *)
(***************************************************************************)
OversizeStart ==
    /\ \E n \in {MIN_BUFFER_SIZE, MIN_BUFFER_SIZE + RxExtra} :
           rx = MqttPacketizer_with_buffer_size(n)
    /\ LET topic == <<0, 1, 97>>
           publish(payload) == [type |-> 3, flags |-> 0, body |-> topic \o payload]
           large == {publish([i \in 1..(size(rx) - 4) |-> 7]),
                     publish([i \in 1..125 |-> 5])}
       IN \E k \in 1..MaxPkts :
           pkts \in {p \in [1..k -> {PINGRESP, PUBACK(1)} \cup large] :
                        /\ \A i \in 1..(k - 1) : p[i] \notin large
                        /\ p[k] \in large}
    /\ wire = encode_all(pkts)
    /\ delivered = <<>>
    /\ rxLast = [op |-> "new"]
    /\ RingIdle /\ OutIdle /\ CnIdle /\ AppIdle

\* the bytes buffered since the last delivered packet hold the whole fixed
\* header of a packet that is larger than the buffer
HeadOversize ==
    /\ Len(delivered) < Len(pkts)
    /\ LET p == pkts[Len(delivered) + 1]
           buffered == Len(encode_all(pkts)) - Len(wire) - Behind(Len(delivered))
       IN /\ buffered >= encoded_length(p) - Len(p.body)
          /\ encoded_length(p) > size(rx)

(***************************************************************************)
(* C13: get_next_packet returns InvalidData as soon as the buffered bytes  *)
(* hold a complete fixed header whose length plus remaining length exceeds *)
(* the buffer's capacity, whatever the chunking; and once a call returns   *)
(* InvalidData every later call does, whether or not bytes were appended   *)
(* in between.                                                             *)
(***************************************************************************)
C13_OversizePermanent ==
    /\ [](rxLast.op = "get_next_packet" /\ rxLast.res # "Packet" /\ HeadOversize
             => rxLast.res = "InvalidData")
    /\ [][get_next_packet(rx).res = "InvalidData"
             => get_next_packet(rx').res = "InvalidData"]_vars

\* after a delivered packet, the three-byte header of the 131-byte PUBLISH
\* lies across the end of the storage, the buffer has filled up behind it and
\* get_next_packet has failed
C13_Witness ==
    /\ rxLast.op = "get_next_packet"
    /\ rxLast.res = "InvalidData"
    /\ Len(delivered) >= 1
    /\ HeadOversize
    /\ Len(pkts[Len(delivered) + 1].body) > 127
    /\ is_full(rx)
    /\ rx.read + 3 > size(rx)

(***************************************************************************)
(* The streamer with a TX ring of TxCap bytes, or with one a byte shorter   *)
(* than a PUBACK; the transport takes a part of what it is offered, blocks *)
(* or is interrupted.                                                      *)
(***************************************************************************)
TxStart ==
    /\ \E n \in {encoded_length(PUBACK(1)) - 1, TxCap} :
           tx = MqttStreamer_with_buffer_size(n)
    /\ sentBytes = <<>>
    /\ queued = <<>>
    /\ txLast = [op |-> "new", writes |-> 0]
    /\ net = [kind |-> "partial", blocks |-> MaxBlocks]
    /\ conn = [state |-> "idle"]
    /\ RingIdle /\ InIdle /\ AppIdle

(***************************************************************************)
(* C14: write_packet rejects a packet whose encoding is larger than the    *)
(* TX ring with InvalidInput, and one that fits the ring but not its free  *)
(* space with WriteZero, the ring unchanged in both cases; on success the  *)
(* ring grows by exactly the packet's encoding (never by a part of it).    *)
(***************************************************************************)
C14_WritePacket ==
    [][(txLast'.op = "write" /\ txLast'.writes = txLast.writes + 1) =>
          LET length == txLast'.len
              before == into_vec(peek_remaining(tx))
              after == into_vec(peek_remaining(tx'))
              bytes == SubSeq(queued', Len(queued) + 1, Len(queued'))
          IN IF length > size(tx)
             THEN txLast'.res = "InvalidInput" /\ tx' = tx
             ELSE IF length > available_space(tx)
             THEN txLast'.res = "WriteZero" /\ tx' = tx
             ELSE /\ txLast'.res = "Ok"
                  /\ Len(bytes) = length
                  /\ after = before \o bytes
                  /\ valid_length(tx') = valid_length(tx) + length]_vars

\* a PUBACK was refused with WriteZero by a ring that had room for a part of it
C14_Witness ==
    /\ txLast.op = "write"
    /\ txLast.res = "WriteZero"
    /\ txLast.len = encoded_length(PUBACK(1))
    /\ available_space(tx) > 0
    /\ ~is_empty(tx)

\* the number of bytes a step takes out of the RX framer: what it held and
\* what was read from the transport, less what it holds afterwards
Framed == valid_length(rx) + (Len(wire) - Len(wire')) - valid_length(rx')

\* the broker answers with a CONNACK that refuses the connection
Refusal == pkts[1].type = 2 /\ pkts[1].body[2] # ConnectionAccepted

(***************************************************************************)
(* C15: when the first packet received during connect is a CONNACK whose   *)
(* return code is not ConnectionAccepted, the call of complete() that      *)
(* takes it fails with ConnectFailed carrying that return code, and no     *)
(* call ever returns a connection.                                         *)
(***************************************************************************)
C15_Refused ==
    /\ [](Refusal => conn.state # "connected")
    /\ [][(Refusal /\ Completes /\ Framed > 0) =>
              /\ conn'.state = "failed"
              /\ conn'.last = "ConnectFailed"
              /\ conn'.code = {pkts[1].body[2]}]_vars

\* CONNACK(NotAuthorized) was taken after a call that blocked
C15_Witness ==
    /\ pkts = <<CONNACK(NotAuthorized)>>
    /\ conn.state = "failed"
    /\ conn.last = "ConnectFailed"
    /\ conn.code = {NotAuthorized}
    /\ conn.calls >= 2
    /\ net.blocks < MaxBlocks
    /\ sentBytes = encode(CONNECT)

(***************************************************************************)
(* Connecting to a broker that answers the CONNECT with something other    *)
(* than a CONNACK: a PINGRESP or a PUBACK, or bytes that are no packet (a  *)
(* reserved packet type, a remaining length of more than four bytes, a     *)
(* PUBLISH longer than the RX buffer).                                     *)
(***************************************************************************)
ViolationStart ==
    /\ tx = MqttStreamer_with_buffer_size(1)
    /\ \E n \in MIN_BUFFER_SIZE..(MIN_BUFFER_SIZE + RxExtra) :
           rx = MqttPacketizer_with_buffer_size(n)
    /\ pkts = <<>>
    /\ wire \in {encode(PINGRESP), encode(PUBACK(1)), <<0, 0>>, <<240, 0>>,
                 <<32, 128, 128, 128, 128>>, <<48, 127>>}
    /\ delivered = <<>>
    /\ rxLast = [op |-> "new"]
    /\ sentBytes = <<>>
    /\ queued = <<>>
    /\ txLast = [op |-> "new", writes |-> 0]
    /\ net \in Transports
    /\ conn = [state |-> "new", expired |-> FALSE, calls |-> 0, last |-> "none",
               code |-> {}]
    /\ RingIdle /\ AppIdle

(***************************************************************************)
(* C16: if the first complete packet received during connect is not a      *)
(* CONNACK, or the received bytes are not a valid packet, complete() fails *)
(* with ProtocolViolation and never returns a connection: a call made      *)
(* before the deadline, with the CONNECT sent, the broker's whole answer   *)
(* buffered (and room left in the buffer) and a transport that only blocks *)
(* or is interrupted, returns ProtocolViolation.                           *)
(***************************************************************************)
C16_ProtocolViolation ==
    /\ [](conn.state # "connected")
    /\ [][(/\ Completes
           /\ ~conn.expired
           /\ net.kind = "partial"
           /\ is_empty(tx)
           /\ wire = <<>>
           /\ available_space(rx) > 0) =>
              /\ conn'.state = "failed"
              /\ conn'.last = "ProtocolViolation"]_vars

(***************************************************************************)
(* C17: connect() with a CONNECT packet whose encoding is larger than the  *)
(* configured TX buffer returns InvalidInput, and the transport is neither *)
(* read nor written: nothing was sent, and the broker's answer is unread.  *)
(***************************************************************************)
C17_OversizedConnect ==
    /\ [][(conn.state = "new" /\ conn'.state # "new"
              /\ encoded_length(CONNECT) > size(tx')) =>
              /\ conn'.state = "failed"
              /\ conn'.last = "InvalidInput"
              /\ sentBytes' = sentBytes
              /\ wire' = wire
              /\ rx' = rx
              /\ net' = net]_vars
    /\ [](conn.last = "InvalidInput" =>
              /\ conn.state = "failed"
              /\ sentBytes = <<>>
              /\ wire = encode_all(pkts)
              /\ is_empty(rx))

\* connect() was refused for a TX buffer one byte short of the CONNECT
C17_Witness ==
    /\ conn.state = "failed"
    /\ conn.last = "InvalidInput"
    /\ size(tx) = encoded_length(CONNECT) - 1
    /\ wire # <<>>

(***************************************************************************)
(* C18: a call of complete() made after the connect timeout has elapsed    *)
(* fails with IOError(TimedOut) whatever the progress (CONNECT partly      *)
(* sent, or waiting for the CONNACK), before it reads from or writes to    *)
(* the transport.                                                          *)
(***************************************************************************)
C18_Deadline ==
    [][(Completes /\ conn.expired) =>
          /\ conn'.state = "failed"
          /\ conn'.last = "TimedOut"
          /\ sentBytes' = sentBytes
          /\ wire' = wire
          /\ tx' = tx
          /\ rx' = rx
          /\ net' = net]_vars

\* the deadline passed with a part of the CONNECT sent and the rest queued
C18_Witness ==
    /\ conn.state = "failed"
    /\ conn.last = "TimedOut"
    /\ conn.expired
    /\ sentBytes # <<>>
    /\ ~is_empty(tx)

(***************************************************************************)
(* The connection is lost while connecting: it is reset (from then on      *)
(* every write fails with ConnectionReset, and so does a read once the     *)
(* bytes in flight are taken), or the broker, having received the CONNECT, *)
(* closes it (a read returns 0 once the bytes in flight are taken).        *)
(***************************************************************************)
Break ==
    /\ conn.state = "connecting"
    /\ net.kind \in {"partial", "any"}
    /\ \E k \in {"reset", "closed"} :
        /\ k = "closed" => is_empty(tx)
        /\ net' = [net EXCEPT !.kind = k]
    /\ UNCHANGED <<conn, inVars, outVars, ringVars, appVars>>

(***************************************************************************)
(* C19: a transport read that returns 0 bytes makes complete() fail with   *)
(* IOError(ConnectionAborted), and a read or a write that fails with an    *)
(* error other than WouldBlock and Interrupted makes it fail with IOError  *)
(* carrying that error's kind.  On a lost connection a call before the     *)
(* deadline meets such a read or write unless the RX buffer fills up       *)
(* first.                                                                  *)
(***************************************************************************)
C19_FatalTransport ==
    [][(/\ Completes
        /\ ~conn.expired
        /\ net.kind \in {"reset", "closed"}
        /\ ~is_full(rx')) =>
          /\ conn'.state = "failed"
          /\ conn'.last = IF net.kind = "closed" THEN "ConnectionAborted"
                          ELSE "ConnectionReset"]_vars

\* the broker closed the connection after a part of its answer, which was read
\* before the read that returned 0
C19_Witness ==
    /\ net.kind = "closed"
    /\ conn.state = "failed"
    /\ conn.last = "ConnectionAborted"
    /\ valid_length(rx) > 0
    /\ wire = <<>>
    /\ conn.calls >= 2

(***************************************************************************)
(* The packet-id allocator on its own: a PacketsNumerator that has served  *)
(* `calls` calls since PacketsNumerator::new, and the value the last of    *)
(* them returned (none yet, or none because the call panicked: {}).  The   *)
(* runs start at most NumSpan calls after new, or at most NumSpan calls    *)
(* before the 65535th.                                                     *)
(***************************************************************************)
NumStart ==
    /\ \E k \in (0..NumSpan) \cup ((U16_MAX - NumSpan)..U16_MAX) :
           client = [state |-> "numerator", value |-> k, calls |-> k,
                     ret |-> IF k = 0 THEN {} ELSE {k}, panic |-> FALSE]
    /\ handles = <<>>
    /\ sock = [pc |-> "idle"]
    /\ RingIdle /\ InIdle /\ OutIdle /\ CnIdle

\* one call of PacketsNumerator::next
NumeratorNext ==
    /\ ~client.panic
    /\ client.calls < U16_MAX + NumSpan
    /\ \E o \in PacketsNumerator_next(client.value) :
           client' = [client EXCEPT !.value = o.value,
                                    !.calls = @ + 1,
                                    !.ret = IF o.panic THEN {} ELSE {o.value},
                                    !.panic = o.panic]
    /\ UNCHANGED <<handles, sock, ringVars, inVars, outVars, cnVars>>

(***************************************************************************)
(* C20: the k-th call of PacketsNumerator::next on a fresh allocator       *)
(* returns k for every k in 1..65535, and no call returns 0: the call      *)
(* after the one that returned 0xFFFF returns 1.                           *)
(***************************************************************************)
C20_Allocator ==
    [][client'.calls = client.calls + 1 =>
          /\ ~client'.panic
          /\ client'.ret # {0}
          /\ client'.calls <= U16_MAX => client'.ret = {client'.calls}
          /\ client.ret = {U16_MAX} => client'.ret = {1}]_vars

(***************************************************************************)
(* C21: every entry of awaiting_acks is removed by the acknowledgement     *)
(* with its packet-id or when its message is given up (send failure or     *)
(* timeout): no packet-id is registered for a handle whose status is       *)
(* terminal.                                                               *)
(***************************************************************************)
C21_NoStaleEntry ==
    \A p \in DOMAIN sock.awaiting_acks :
        handles[sock.awaiting_acks[p]].status
            \notin {"SendFailed", "Acknowledged", "Rejected", "TimedOut"}

(***************************************************************************)
(* C22: read_twin on a session whose twin-read family is Unsubscribed      *)
(* subscribes first, and the step that handles the SUBACK(success) of that *)
(* subscription puts the twin GET PUBLISH, with a packet-id, at the end of *)
(* the TX ring when the ring is empty, so has room for it: the caller does *)
(* not call read_twin again.                                               *)
(***************************************************************************)
C22_TwinReadAfterSuback ==
    [][(/\ SubAckStep
        /\ is_empty(tx)
        /\ client.twin_read.st = "Subscribing"
        /\ client.twin_read.packet_id = client'.last.msg.packet_id
        /\ client'.last.msg.result = "Ok") =>
           \E packet_id \in 1..U16_MAX :
               into_vec(peek_remaining(tx')) =
                   into_vec(peek_remaining(tx)) \o encode(GET_TWIN(packet_id))]_vars

(***************************************************************************)
(* raiot-client, DeviceClient: read_twin registers a RequestState under a  *)
(* fresh request-id and awaits its TwinFuture; the read loop hands every   *)
(* twin response to the RequestState registered under its request-id.      *)
(* client = [state |-> "device", subscribed_to_twin, awaiting_response,    *)
(* futures, last]: futures are the RequestStates ever made, in order, and  *)
(* awaiting_response maps a request-id to the index of its RequestState.   *)
(* Uuid::new_v4 is an id no earlier request had.  What read_twin and the   *)
(* read loop pass to IotSocketTx::send belongs to the socket loop.         *)
(***************************************************************************)
\* the number of read_twin calls
MaxReqs == 2

\* the request-ids: one more than the requests made
RequestIds == 1..(MaxReqs + 1)

\* what rx.recv() gives the read loop
DeviceMsgs ==
    {[kind |-> "TwinResponseMessage", request_id |-> r, status |-> s] :
        r \in RequestIds, s \in {200, 404}}
    \cup {[kind |-> k] : k \in {"DirectMethodInvocation", "CloudToDeviceMessage",
                                "SubscriptionResponseMessage"}}

\* the read loop completing whichever request is registered
read_loop_m(c, msg) ==
    IF msg.kind = "TwinResponseMessage" /\ DOMAIN c.awaiting_response # {}
    THEN LET r == CHOOSE q \in DOMAIN c.awaiting_response :
                      \A p \in DOMAIN c.awaiting_response : q <= p
             i == c.awaiting_response[r]
         IN [c EXCEPT !.awaiting_response =
                          [q \in DOMAIN c.awaiting_response \ {r} |->
                              c.awaiting_response[q]],
                      !.futures[i].result = {msg},
                      !.futures[i].waker = FALSE,
                      !.futures[i].wakes = IF c.futures[i].waker THEN @ + 1 ELSE @]
    ELSE c

\* one turn of the read loop of DeviceClient::new, as far as the twin goes
read_loop(c, msg) ==
    IF msg.kind = "TwinResponseMessage" /\ msg.request_id \in DOMAIN c.awaiting_response
    THEN LET i == c.awaiting_response[msg.request_id]
         IN [c EXCEPT !.awaiting_response =
                          [q \in DOMAIN c.awaiting_response \ {msg.request_id} |->
                              c.awaiting_response[q]],
                      !.futures[i].result = {msg},
                      !.futures[i].waker = FALSE,
                      !.futures[i].wakes = IF c.futures[i].waker THEN @ + 1 ELSE @]
    ELSE c

\* TwinFuture::poll on the RequestState f
TwinFuture_poll(f) ==
    IF f.result = {}
    THEN [f EXCEPT !.waker = TRUE, !.out = "Pending"]
    ELSE [f EXCEPT !.result = {}, !.out = "Ready", !.ready = f.result]

TwinStart ==
    /\ client = [state |-> "device", subscribed_to_twin |-> FALSE,
                 awaiting_response |-> [r \in {} |-> 0], futures |-> <<>>,
                 last |-> [op |-> "new"]]
    /\ handles = <<>>
    /\ sock = [pc |-> "idle"]
    /\ RingIdle /\ InIdle /\ OutIdle /\ CnIdle

\* DeviceClient::read_twin up to fut.await: the subscription is sent and
\* awaited first (unwrap), the request is registered and then sent (unwrap)
DeviceReadTwin ==
    /\ client.state = "device"
    /\ Len(client.futures) < MaxReqs
    /\ \E subscribed \in (IF client.subscribed_to_twin THEN {TRUE} ELSE BOOLEAN),
          sent \in BOOLEAN,
          request_id \in RequestIds \ {client.futures[i].request_id :
                                          i \in DOMAIN client.futures} :
        client' =
            IF ~subscribed
            THEN [client EXCEPT !.state = "panicked", !.last = [op |-> "read_twin"]]
            ELSE [client EXCEPT
                     !.subscribed_to_twin = TRUE,
                     !.state = IF sent THEN @ ELSE "panicked",
                     !.awaiting_response =
                         @ @@ (request_id :> (Len(client.futures) + 1)),
                     !.futures = Append(@, [request_id |-> request_id, result |-> {},
                                            waker |-> FALSE, wakes |-> 0,
                                            out |-> "none", ready |-> {}]),
                     !.last = [op |-> "read_twin"]]
    /\ UNCHANGED <<handles, sock, ringVars, inVars, outVars, cnVars>>

\* the executor polls a TwinFuture that has not returned Ready
TwinPoll ==
    /\ client.state = "device"
    /\ \E i \in DOMAIN client.futures :
        /\ client.futures[i].out # "Ready"
        /\ client' = [client EXCEPT !.futures[i] = TwinFuture_poll(@),
                                    !.last = [op |-> "poll"]]
    /\ UNCHANGED <<handles, sock, ringVars, inVars, outVars, cnVars>>

\* the read loop thread takes one message; it outlives a panic of read_twin
ReadLoop ==
    /\ \E msg \in DeviceMsgs :
        client' = [read_loop(client, msg) EXCEPT !.last = [op |-> "recv", msg |-> msg]]
    /\ UNCHANGED <<handles, sock, ringVars, inVars, outVars, cnVars>>

TwinNext == DeviceReadTwin \/ TwinPoll \/ ReadLoop

(***************************************************************************)
(* C23: a twin response with request-id r completes the RequestState       *)
(* registered under r, wakes its waker if it has one, removes the entry of *)
(* r from awaiting_response and leaves every other RequestState and entry  *)
(* as it was; a response whose request-id has no entry changes nothing;    *)
(* and no TwinFuture ever holds or returns a response with a request-id    *)
(* other than its own.                                                     *)
(***************************************************************************)
\* this step is the read loop handling a twin response
TwinRespStep ==
    /\ client'.last.op = "recv"
    /\ client' # client
    /\ client'.last.msg.kind = "TwinResponseMessage"

C23_Correlation ==
    /\ [](\A i \in DOMAIN client.futures :
             \A m \in client.futures[i].result \cup client.futures[i].ready :
                 m.request_id = client.futures[i].request_id)
    /\ [][TwinRespStep =>
             LET msg == client'.last.msg
                 r == msg.request_id
             IN IF r \in DOMAIN client.awaiting_response
                THEN LET i == client.awaiting_response[r] IN
                     /\ client.futures[i].request_id = r
                     /\ client.futures[i].result = {}
                     /\ client'.futures[i].result = {msg}
                     /\ client'.futures[i].wakes =
                            client.futures[i].wakes
                            + (IF client.futures[i].waker THEN 1 ELSE 0)
                     /\ DOMAIN client'.awaiting_response =
                            DOMAIN client.awaiting_response \ {r}
                     /\ \A q \in DOMAIN client'.awaiting_response :
                            client'.awaiting_response[q] = client.awaiting_response[q]
                     /\ \A j \in DOMAIN client.futures \ {i} :
                            client'.futures[j] = client.futures[j]
                ELSE /\ client'.futures = client.futures
                     /\ client'.awaiting_response = client.awaiting_response]_vars

\* two requests pending and polled; the response to the second has just
\* completed and woken it, the first is still registered and Pending
C23_Witness ==
    /\ client.state = "device"
    /\ client.last.op = "recv"
    /\ Len(client.futures) = 2
    /\ client.futures[2].result = {client.last.msg}
    /\ client.futures[2].wakes = 1
    /\ client.futures[1].result = {}
    /\ client.futures[1].out = "Pending"
    /\ client.futures[1].request_id \in DOMAIN client.awaiting_response
    /\ client.futures[2].request_id \notin DOMAIN client.awaiting_response

(***************************************************************************)
(* Dispatch in the single-threaded client: process() hands a C2D message,  *)
(* a direct-method invocation, a desired-properties update or a twin       *)
(* response to process_msg; the handlers it calls are kept in last.        *)
(***************************************************************************)
\* the messages of the hub that are not SUBACKs; a C2D message of QoS 1 has a packet-id
DispatchMsgs ==
    {[kind |-> "CloudToDeviceMessage", packet_id |-> p] :
        p \in {{}, {1}}}
    \cup {[kind |-> k, packet_id |-> {}] :
            k \in {"DirectMethodInvocation", "DesiredPropertiesUpdated",
                   "TwinResponseMessage"}}

\* process(): one packet that is not a SUBACK read and handed to process_msg
ProcessDispatch ==
    /\ client.state = "running"
    /\ \E msg \in DispatchMsgs :
        LET o == process_msg(client, msg) IN
        client' = [o.client EXCEPT
                      !.last = [op |-> "dispatch", msg |-> msg, invoked |-> o.invoked]]
    /\ UNCHANGED <<outVars, net, conn, handles, sock, ringVars, inVars>>

\* the states a family can be in after one subscribe request with packet-id
\* packet_id: not yet answered, granted, or refused
AfterSub(packet_id, error_handlers) ==
    {[st |-> "Unsubscribed"]}
    \cup {[st |-> "Subscribed", handler |-> h] : h \in Handlers}
    \cup {[st |-> "Subscribing", handler |-> h, error_handler |-> e,
           packet_id |-> packet_id] : h \in Handlers, e \in error_handlers}

\* sub_c2d, sub_dmi, sub_twin_updates and read_twin have been called once
\* each, in this order, and process() has sent the SUBSCRIBEs and handled the
\* SUBACKs that have come; the twin-read handler is the client's own closure
DispatchStart ==
    /\ \E c2d \in AfterSub(1, Handlers), dmi \in AfterSub(2, {0}),
          twin_updates \in AfterSub(3, {0}),
          twin_read \in {[st |-> "Unsubscribed"], [st |-> "Subscribed", handler |-> 0],
                         [st |-> "Subscribing", handler |-> 0, error_handler |-> 0,
                          packet_id |-> 4]} :
        client = [state |-> "running", packets_numerator |-> 4,
                  twin_read |-> twin_read, dmi |-> dmi,
                  twin_updates |-> twin_updates, c2d |-> c2d,
                  last |-> [op |-> "new"]]
    /\ tx = MqttStreamer_with_buffer_size(encoded_length(SUBSCRIBE(1, "c2d", "AtLeastOnce")))
    /\ sentBytes = <<>>
    /\ queued = <<>>
    /\ txLast = [op |-> "new", writes |-> 0]
    /\ net = [kind |-> "partial", blocks |-> MaxBlocks]
    /\ conn = [state |-> "idle"]
    /\ handles = <<>>
    /\ sock = [pc |-> "idle"]
    /\ RingIdle /\ InIdle

\* this step is process_msg handling a message that is not a SUBACK
DispatchStep == client'.last.op = "dispatch" /\ client' # client

\* the family a message is dispatched to, if any
FamilyOf(msg) ==
    IF msg.kind = "CloudToDeviceMessage" THEN {"c2d"}
    ELSE IF msg.kind = "DirectMethodInvocation" THEN {"dmi"}
    ELSE IF msg.kind = "DesiredPropertiesUpdated" THEN {"twin_updates"}
    ELSE {}

(***************************************************************************)
(* C24: a C2D message of QoS 1 that is dispatched while the C2D family is  *)
(* Subscribed, with the TX ring empty, has its handler invoked once and a  *)
(* PUBACK with its packet-id put into the TX ring in that step.            *)
(***************************************************************************)
C24_C2dAcked ==
    [][(/\ DispatchStep
        /\ client'.last.msg.kind = "CloudToDeviceMessage"
        /\ client'.last.msg.packet_id # {}
        /\ client.c2d.st = "Subscribed"
        /\ is_empty(tx)) =>
           /\ client'.last.invoked = <<client.c2d.handler>>
           /\ \A p \in client'.last.msg.packet_id :
                  into_vec(peek_remaining(tx')) = encode(PUBACK(p))]_vars

(***************************************************************************)
(* C25: a C2D message, a direct-method invocation or a desired-properties  *)
(* update invokes the handler of its family once, and no other, when the   *)
(* family is Subscribed, and invokes no handler and leaves the TX ring as  *)
(* it was when the family is Unsubscribed or Subscribing; the state of     *)
(* every family is left as it was.                                         *)
(***************************************************************************)
C25_DispatchGating ==
    [][DispatchStep =>
          /\ \A f \in FamilyOf(client'.last.msg) :
                 IF client[f].st = "Subscribed"
                 THEN client'.last.invoked = <<client[f].handler>>
                 ELSE client'.last.invoked = <<>> /\ tx' = tx
          /\ \A i \in DOMAIN Families : client'[Families[i]] = client[Families[i]]
          /\ client'.packets_numerator = client.packets_numerator]_vars

\* a direct-method invocation reaches handler 2 while the C2D family is
\* still Subscribing
C25_Witness ==
    /\ client.last.op = "dispatch"
    /\ client.last.msg.kind = "DirectMethodInvocation"
    /\ client.last.invoked = <<2>>
    /\ client.dmi = [st |-> "Subscribed", handler |-> 2]
    /\ client.c2d.st = "Subscribing"

(***************************************************************************)
(* Decoding in the single-threaded client: process() takes a framed packet *)
(* from the connection, decodes it with IotCodec::decode_packet, unwraps   *)
(* the result and hands the message to process_msg.                        *)
(***************************************************************************)
\* IotCodec::decode_packet; the topic of PUBLISH0 is that of no family
decode_packet(packet) ==
    IF packet.type = 2
    THEN [res |-> "Ok", msg |-> [kind |-> "ConnectResponseMessage"]]
    ELSE IF packet.type = 3
    THEN [res |-> "Ok", msg |-> [kind |-> "UnknownMessage"]]
    ELSE IF packet.type = 4
    THEN [res |-> "Ok", msg |-> [kind |-> "PublicationSucceeded",
                                 packet_id |-> packet.body[1] * 256 + packet.body[2]]]
    ELSE IF packet.type = 9
    THEN [res |-> "Ok",
          msg |-> [kind |-> "SubscriptionResponseMessage",
                   packet_id |-> packet.body[1] * 256 + packet.body[2],
                   result |-> IF packet.body[3] = 128 THEN "Failure" ELSE "Ok"]]
    ELSE [res |-> "UnexpectedMqttPacketType"]

\* the framed packets the hub sends
HubPackets == {PINGRESP, PUBACK(1), PUBLISH0(1), SUBACK(1, 0), SUBACK(1, 128)}

\* process(): one packet read, decoded (unwrap) and handed to process_msg
ProcessPacket ==
    /\ client.state = "running"
    /\ \E packet \in HubPackets :
        LET d == decode_packet(packet) IN
        client' = IF d.res = "Ok"
                  THEN [process_msg(client, d.msg).client EXCEPT
                           !.last = [op |-> "packet", decoded |-> d.res,
                                     type |-> packet.type]]
                  ELSE [client EXCEPT
                           !.state = "panicked",
                           !.last = [op |-> "packet", decoded |-> d.res,
                                     type |-> packet.type]]
    /\ UNCHANGED <<outVars, net, conn, handles, sock, ringVars, inVars>>

(***************************************************************************)
(* C26: a well-framed packet that IotCodec::decode_packet refuses is       *)
(* dropped: the step that reads it leaves the session running, with every  *)
(* family and the TX ring as they were, so that the packets after it are   *)
(* processed.                                                              *)
(***************************************************************************)
C26_CodecErrorDropped ==
    [][(/\ client'.last.op = "packet"
        /\ client' # client
        /\ client'.last.decoded # "Ok") =>
           /\ client'.state = "running"
           /\ \A i \in DOMAIN Families : client'[Families[i]] = client[Families[i]]
           /\ tx' = tx]_vars

(***************************************************************************)
(* C27: when a fatal read error ends the socket loop, every handle that is *)
(* registered in awaiting_acks or held for transmission in tx_buf has a    *)
(* terminal status: no MessageFuture is left Pending for good.             *)
(***************************************************************************)
C27_ResolvedOnLoss ==
    sock.pc = "panicked" =>
        \A h \in {sock.awaiting_acks[p] : p \in DOMAIN sock.awaiting_acks}
                 \cup sock.tx_buf :
            handles[h].status \in {"SendFailed", "Acknowledged", "Rejected", "TimedOut"}

(***************************************************************************)
(* The connected session reading: recv_task appends from the stream to the *)
(* RX ring until the stream blocks, fails, or the time is up; the peer may *)
(* close the connection, after which a read returns what is still in       *)
(* flight and then 0 bytes.                                                *)
(***************************************************************************)
\* MqttConnection::recv_task; fuel: the iterations left before the time is up,
\* reads: the calls of append_from_reader it has made, past: it has called
\* append_from_reader again after a read that left a whole packet in the ring
RECURSIVE recv_task(_, _, _, _)
recv_task(b, src, fuel, env) ==
    LET after(o) ==
            IF o.res \in {"Ok", "Interrupted"}
            THEN IF fuel = 0
                 THEN {[buf |-> o.buf, src |-> o.src, res |-> "Ok", reads |-> 1,
                        past |-> FALSE]}
                 ELSE {[r EXCEPT !.reads = @ + 1,
                                 !.past = \/ @
                                          \/ /\ r.reads > 0
                                             /\ o.buf # b
                                             /\ get_next_packet(o.buf).res = "Packet"] :
                          r \in recv_task(o.buf, o.src, fuel - 1, env)}
            ELSE IF o.res = "WouldBlock"
            THEN {[buf |-> o.buf, src |-> o.src, res |-> "Ok", reads |-> 1,
                   past |-> FALSE]}
            ELSE {[buf |-> o.buf, src |-> o.src, res |-> o.res, reads |-> 1,
                   past |-> FALSE]}
    IN {[buf |-> b, src |-> src, res |-> "Ok", reads |-> 0, past |-> FALSE]}
       \cup UNION {after(o) : o \in append_from_reader(b, src, env)}

\* process(): recv_task; closed: the call read from a connection that was
\* closed with nothing in flight, so that its reads returned 0 bytes
RecvTask ==
    /\ \E o \in recv_task(rx, wire, MaxSpin, IoOf(net)) :
        /\ rx' = o.buf
        /\ wire' = o.src
        /\ rxLast' = [op |-> "recv_task", res |-> o.res, past |-> o.past,
                      closed |-> net.kind = "closed" /\ wire = <<>> /\ o.reads > 0]
    /\ UNCHANGED <<pkts, delivered>>
    /\ UNCHANGED notIn

\* the peer closes the connection
PeerCloses ==
    /\ net.kind = "partial"
    /\ net' = [net EXCEPT !.kind = "closed"]
    /\ UNCHANGED <<conn, inVars, outVars, ringVars, appVars>>

SessionNext == RecvTask \/ GetNextPacket \/ PeerCloses

(***************************************************************************)
(* C28: a recv_task call whose reads return 0 bytes, the connection being  *)
(* closed, returns an error: it does not return as when there is nothing   *)
(* to read for now.                                                        *)
(***************************************************************************)
C28_EndOfStream ==
    (rxLast.op = "recv_task" /\ rxLast.closed) => rxLast.res # "Ok"

(***************************************************************************)
(* C29: the socket loop takes the messages in the order IotSocketTx::send  *)
(* enqueued them.  A call of send_next attempts the deferred message if    *)
(* there is one and the head of the queue otherwise; it either transmits   *)
(* that message (Sent or SendFailed) or defers it in tx_buf, takes no      *)
(* other message from the queue and touches no other handle; the deferred  *)
(* message is older than every queued one, the queue is in the order of    *)
(* enqueueing, and every handle that was never attempted is still queued.  *)
(***************************************************************************)
\* this step is a call of send_next, the futures left unpolled
SendStep ==
    /\ sock.pc = "send"
    /\ Len(handles') = Len(handles)
    /\ <<sock', handles'>> # <<sock, handles>>

\* the message the next send_next is due to attempt
NextOutgoing ==
    IF sock.tx_buf # {} THEN sock.tx_buf
    ELSE IF sock.outgoing_queue # <<>> THEN {Head(sock.outgoing_queue)}
    ELSE {}

C29_OutboundFifo ==
    /\ [](/\ \A i, j \in DOMAIN sock.outgoing_queue :
                i < j => sock.outgoing_queue[i] < sock.outgoing_queue[j]
          /\ \A h \in sock.tx_buf :
                \A i \in DOMAIN sock.outgoing_queue : h < sock.outgoing_queue[i]
          /\ \A h \in DOMAIN handles :
                handles[h].status = "Pending" =>
                    \/ h \in sock.tx_buf
                    \/ \E i \in DOMAIN sock.outgoing_queue : sock.outgoing_queue[i] = h)
    /\ [][SendStep =>
             /\ \A h \in NextOutgoing :
                    \/ /\ handles'[h].status \in {"Sent", "SendFailed"}
                       /\ sock'.tx_buf = {}
                    \/ /\ sock'.tx_buf = {h}
                       /\ handles'[h] = handles[h]
             /\ sock'.outgoing_queue =
                    IF sock.tx_buf # {} \/ sock.outgoing_queue = <<>>
                    THEN sock.outgoing_queue
                    ELSE Tail(sock.outgoing_queue)
             /\ \A g \in DOMAIN handles \ NextOutgoing : handles'[g] = handles[g]]_vars

\* the first message was deferred and then sent, the second is deferred
\* behind it
C29_Witness ==
    /\ Len(handles) = 2
    /\ handles[1].status = "Sent"
    /\ handles[2].status = "Pending"
    /\ sock.tx_buf = {2}
    /\ sock.outgoing_queue = <<>>
    /\ sock.pc = "recv"

(***************************************************************************)
(* C30: write_into on wrapped data offers the first consecutive region to  *)
(* the sink and then the wraparound region: what the sink accepts is a     *)
(* prefix of the first region followed by a prefix of the second.  When    *)
(* the sink answers WouldBlock or Interrupted for the wraparound region,   *)
(* write_into returns Ok(n), n being the number of bytes the sink accepted *)
(* from the first region, and the read index advances by exactly n; any    *)
(* other error of the sink for the wraparound region is returned.          *)
(***************************************************************************)
\* this step is write_into on wrapped data, the sink having accepted the
\* offer of the first region
WrappedWriteStep ==
    /\ ringLast'.op = "write_into"
    /\ <<rb', ringLast'>> # <<rb, ringLast>>
    /\ peek_remaining(rb).kind = "Splitted"
    /\ ringLast'.second # "none"

C30_WrappedWriteInto ==
    [][WrappedWriteStep =>
          LET s == peek_remaining(rb)
              o == ringLast'
          IN /\ \E k1 \in 0..Len(s.p1), k2 \in 0..Len(s.p2) :
                    o.out = SubSeq(s.p1, 1, k1) \o SubSeq(s.p2, 1, k2)
             /\ o.second \in {"WouldBlock", "Interrupted"} =>
                    /\ o.res = "Ok"
                    /\ o.ret <= Len(s.p1)
                    /\ o.out = SubSeq(s.p1, 1, o.ret)
                    /\ rb'.read = (rb.read + o.ret) % size(rb)
                    /\ rb'.write = rb.write
             /\ o.second \notin {"Ok", "WouldBlock", "Interrupted"} =>
                    o.res = o.second]_vars

\* the sink took two bytes of the first region and blocked on the wraparound
\* region: Ok(2)
C30_Witness ==
    /\ ringLast.op = "write_into"
    /\ ringLast.second = "WouldBlock"
    /\ ringLast.res = "Ok"
    /\ ringLast.ret = 2
    /\ ~is_empty(rb)

(***************************************************************************)
(* C31: a call of append_from_reader appends to the stored bytes exactly   *)
(* the bytes the reader produced in it, in the order produced, whether it  *)
(* returns Ok or an error, so that nothing read is lost or stored twice;   *)
(* Ok(n) reports their number; on a full buffer the call returns WriteZero *)
(* with the buffer as it was and nothing read.                             *)
(***************************************************************************)
\* this step is a call of append_from_reader
AppendFromReaderStep ==
    /\ ringLast'.op = "append_from_reader"
    /\ <<rb', appended', ringLast'>> # <<rb, appended, ringLast>>

C31_AppendFromReader ==
    [][AppendFromReaderStep =>
          LET n == ringLast'.n
              produced == SubSeq(appended', Len(appended) + 1, Len(appended'))
          IN /\ Len(produced) = n
             /\ valid_length(rb') = valid_length(rb) + n
             /\ into_vec(peek_remaining(rb')) = into_vec(peek_remaining(rb)) \o produced
             /\ ringLast'.res = "Ok" => ringLast'.ret = n
             /\ is_full(rb) => /\ ringLast'.res = "WriteZero"
                               /\ rb' = rb
                               /\ n = 0]_vars

\* the reader gave two bytes and then blocked: the call returns WouldBlock
\* with the two bytes stored
C31_Witness ==
    /\ ringLast.op = "append_from_reader"
    /\ ringLast.res = "WouldBlock"
    /\ ringLast.n = 2
    /\ valid_length(rb) >= 2

(***************************************************************************)
(* C32: a call of complete() that reads from the transport or settles the  *)
(* connection by what it read has handed every byte of the CONNECT to the  *)
(* transport; a call that returns WouldBlock with a part of the CONNECT    *)
(* unsent has read nothing and keeps exactly the unsent bytes in the TX    *)
(* ring.                                                                   *)
(***************************************************************************)
C32_ConnectFirst ==
    [][(Completes /\ ~conn.expired) =>
          /\ (\/ wire' # wire
              \/ rx' # rx
              \/ conn'.last \in {"Connected", "ConnectFailed", "ProtocolViolation",
                                 "ConnectionAborted"}) =>
                 sentBytes' = queued
          /\ (conn'.last = "WouldBlock" /\ sentBytes' # queued) =>
                 /\ wire' = wire
                 /\ rx' = rx
                 /\ sentBytes' \o into_vec(peek_remaining(tx')) = queued]_vars

(***************************************************************************)
(* C33: recv_task stops reading once the RX ring holds a whole packet: in  *)
(* no call does it read from the transport again after a read of that call *)
(* has left a whole packet in the ring.                                    *)
(***************************************************************************)
C33_StopsAtPacket == rxLast.op = "recv_task" => ~rxLast.past

(***************************************************************************)
(* C34: a twin response that process() handles while the twin-read family  *)
(* is Subscribed is handed to the handler of that family.                  *)
(***************************************************************************)
C34_TwinDelivered ==
    [][(/\ DispatchStep
        /\ client'.last.msg.kind = "TwinResponseMessage"
        /\ client.twin_read.st = "Subscribed") =>
           client'.last.invoked = <<client.twin_read.handler>>]_vars

\* this step is one call of write_into
WriteIntoStep ==
    /\ ringLast'.op = "write_into"
    /\ <<rb', taken', ringLast'>> # <<rb, taken, ringLast>>

(***************************************************************************)
(* C35: what the sink accepted during one call of write_into is the first  *)
(* k stored bytes of the ring as it was before the call, in order, where k *)
(* is the amount by which valid_length went down; the bytes after them are *)
(* still stored, so no byte is skipped, reordered or removed unaccepted.   *)
(***************************************************************************)
C35_DrainFidelity ==
    [][WriteIntoStep =>
          LET before == into_vec(peek_remaining(rb))
              k == valid_length(rb) - valid_length(rb')
          IN /\ k >= 0
             /\ ringLast'.out = SubSeq(before, 1, k)
             /\ into_vec(peek_remaining(rb')) = SubSeq(before, k + 1, Len(before))]_vars

(***************************************************************************)
(* C36: write_into on a full ring whose sink accepts nothing and answers   *)
(* Ok(0) leaves the ring full: valid_length is still the capacity and the  *)
(* stored bytes can still be read.                                         *)
(***************************************************************************)
C36_FullStaysFull ==
    [][(/\ WriteIntoStep
        /\ is_full(rb)
        /\ ringLast'.res = "Ok" /\ ringLast'.ret = 0 /\ ringLast'.out = <<>>) =>
           /\ valid_length(rb') = size(rb)
           /\ into_vec(peek_remaining(rb')) = into_vec(peek_remaining(rb))]_vars

\* the broker's answer starts with a CONNACK and, after this call of
\* complete(), every byte of that CONNACK has been read from the transport
ConnackRead ==
    /\ pkts # <<>>
    /\ pkts[1].type = 2
    /\ Len(wire') + encoded_length(pkts[1]) <= Len(encode_all(pkts))

(***************************************************************************)
(* C37: a CONNACK that was read is not masked by the end of the stream:    *)
(* when the broker closed the connection after its answer and a call of    *)
(* complete() before the deadline has read every byte of the CONNACK,      *)
(* the call returns what the CONNACK says: a connection for                *)
(* ConnectionAccepted, ConnectFailed with the return code otherwise.       *)
(***************************************************************************)
C37_ConnackNotMasked ==
    [][(/\ Completes
        /\ ~conn.expired
        /\ net.kind = "closed"
        /\ ConnackRead) =>
           IF pkts[1].body[2] = ConnectionAccepted
           THEN conn'.state = "connected" /\ conn'.last = "Connected"
           ELSE /\ conn'.state = "failed" /\ conn'.last = "ConnectFailed"
                /\ conn'.code = {pkts[1].body[2]}]_vars

\* this step is one call of recv_task
RecvTaskStep ==
    /\ rxLast'.op = "recv_task"
    /\ <<rx', wire', rxLast'>> # <<rx, wire, rxLast>>

\* after this step the RX ring is full of packets n+1 .. m of the stream, all
\* of them whole and smaller than the ring
FullOfWholePackets ==
    /\ is_full(rx')
    /\ \E m \in (Len(delivered) + 1)..Len(pkts) :
        /\ Len(encode_all(pkts)) - Len(wire') = Behind(m)
        /\ Behind(m) - Behind(Len(delivered)) = size(rx')
        /\ \A i \in (Len(delivered) + 1)..m : encoded_length(pkts[i]) < size(rx')

(***************************************************************************)
(* C38: a full RX ring is not an error: when the peer has sent at least as *)
(* many bytes as the ring has room for and a call of recv_task fills the   *)
(* ring with whole packets, each smaller than the ring, the call returns   *)
(* without an error (process() unwraps the result), leaving the packets to *)
(* be dispatched and the rest of the stream to a later call.               *)
(***************************************************************************)
C38_BackpressureNoError ==
    [][(/\ RecvTaskStep
        /\ ~is_full(rx)
        /\ FullOfWholePackets) =>
           rxLast'.res = "Ok"]_vars

\* the callers hold at most MaxFutures futures
WakeSend == Len(handles) < MaxFutures /\ Send

\* this step is MessageFuture::poll on handle h: the socket thread stands still
PollStep(h) ==
    /\ sock' = sock
    /\ Len(handles') = Len(handles)
    /\ handles'[h] # handles[h]

\* the hub has acknowledged or rejected the message of handle h
Answered(h) == h.status \in {"Acknowledged", "Rejected"}

(***************************************************************************)
(* C39: no wake-up is lost between MessageFuture::poll and handle_ack, in  *)
(* whatever order the two threads take the handle's lock: a handle that is *)
(* Acknowledged or Rejected holds no stored waker, and if its future last  *)
(* returned Pending the waker that poll stored has been invoked; a poll    *)
(* that finds the handle Acknowledged or Rejected returns Ready; and the   *)
(* step of handle_ack that resolves a handle invokes the waker it finds.   *)
(***************************************************************************)
C39_NoLostWakeup ==
    /\ [](\A h \in DOMAIN handles :
             Answered(handles[h]) =>
                 /\ ~handles[h].waker
                 /\ handles[h].polled = "Pending" => handles[h].woken)
    /\ [][\A h \in DOMAIN handles :
             /\ (PollStep(h) /\ Answered(handles[h])) =>
                    handles'[h].polled = "Ready"
             /\ (/\ sock'.last.op = "ack"
                 /\ handles'[h].status # handles[h].status) =>
                    /\ Answered(handles'[h])
                    /\ ~handles'[h].waker
                    /\ handles[h].waker => handles'[h].woken]_vars

\* a future that returned Pending and was woken when its message was
\* acknowledged
C39_Witness ==
    \E h \in DOMAIN handles :
        /\ handles[h].status = "Acknowledged"
        /\ handles[h].polled = "Pending"
        /\ handles[h].woken
        /\ sock.last.op = "ack"

(***************************************************************************)
(* Inbound QoS-1 messages: the device client's read loop answers a         *)
(* cloud-to-device message that carries packet-id p by handing             *)
(* AckMsg { packet_id: p } to IotSocketTx::send; the hub numbers its       *)
(* messages as it likes, so p may be a packet-id the client uses itself.   *)
(***************************************************************************)
\* MsgToHub::Acknowledge, its packet_id() being Some(msg.packet_id)
AckMsgs == {[kind |-> "Acknowledge", packet_id |-> {i}] : i \in 1..MaxPid}

\* the C2D arm of the read loop: tx2.send(AckMsg { packet_id })
SendAckMsg ==
    /\ sock.pc # "panicked"
    /\ Len(handles) < MaxMsgs
    /\ \E m \in AckMsgs :
        /\ handles' = Append(handles,
                             [msg |-> m, status |-> "Pending", waker |-> FALSE,
                              ack_required |-> m.packet_id # {},
                              polled |-> "no", woken |-> FALSE])
        /\ sock' = [sock EXCEPT !.outgoing_queue = Append(@, Len(handles) + 1)]
    /\ UNCHANGED <<client, ringVars, inVars, outVars, cnVars>>

\* handle h is an outbound publish or subscribe, and the only one that uses
\* its packet-id
OnlyOutbound(h) ==
    /\ handles[h].msg.kind # "Acknowledge"
    /\ \A g \in DOMAIN handles \ {h} :
           handles[g].msg.kind # "Acknowledge" =>
               handles[g].msg.packet_id \cap handles[h].msg.packet_id = {}

(***************************************************************************)
(* C40: the packet-ids of inbound and outbound messages do not interfere:  *)
(* no entry of awaiting_acks belongs to an AckMsg, and an outbound publish *)
(* or subscribe that is Sent and awaits its acknowledgement is registered  *)
(* under its packet-id whatever AckMsgs were sent with the same packet-id, *)
(* so that the hub's acknowledgement resolves it.                          *)
(***************************************************************************)
C40_InboundIdsApart ==
    /\ \A p \in DOMAIN sock.awaiting_acks :
           handles[sock.awaiting_acks[p]].msg.kind # "Acknowledge"
    /\ \A h \in DOMAIN handles :
           (/\ OnlyOutbound(h)
            /\ handles[h].status = "Sent"
            /\ handles[h].ack_required) =>
               \E p \in handles[h].msg.packet_id :
                   /\ p \in DOMAIN sock.awaiting_acks
                   /\ sock.awaiting_acks[p] = h

(***************************************************************************)
(* Specifications                                                          *)
(***************************************************************************)
\* append_all_bytes and read_bytes alone
FifoNext == AppendAllBytes \/ ReadBytes

RingStart == RingInit /\ InIdle /\ OutIdle /\ CnIdle /\ AppIdle

SpecFifo == RingStart /\ [][FifoNext]_vars

\* append_all_bytes, and views of the ring read through Read
ViewNext == AppendAllBytes \/ View \/ SliceRead

SpecView == RingStart /\ [][ViewNext]_vars

\* every operation of the ring
RingNext == AppendAllBytes \/ ReadBytes \/ Peek \/ RingWrite \/ AppendFromReader \/ WriteInto

SpecRing == RingStart /\ [][RingNext]_vars

\* the framer fed a stream of valid packets
FramerStart == FramerInit /\ RingIdle /\ OutIdle /\ CnIdle /\ AppIdle

SpecFramer == FramerStart /\ [][FramerNext]_vars
\* the framer fed a stream with a packet that cannot fit
SpecOversize == OversizeStart /\ [][FramerNext]_vars

\* the connected MqttConnection, outbound
ConnStart == OutInit /\ RingIdle /\ InIdle /\ AppIdle

SpecConn == ConnStart /\ [][ConnNext]_vars
\* the streamer: write_packet into rings of several capacities, and send_task
SpecStreamer == TxStart /\ [][ConnNext]_vars

\* connecting to a broker that does not answer with a CONNACK
SpecViolation == ViolationStart /\ [][ConnectNext]_vars

\* connecting, with complete() called until it ends
ConnectStart == ConnectInit /\ RingIdle /\ AppIdle

SockStart == SockInit /\ RingIdle /\ InIdle /\ OutIdle /\ CnIdle

\* the threaded client: user threads, the socket thread and the hub
SpecSocket == SockStart /\ [][SockNext]_vars

\* the socket thread and the hub, the futures left unpolled
AckNext == Send \/ SendNext \/ RecvNext

SpecAcks == SockStart /\ [][AckNext]_vars

SubStart == SubInit /\ RingIdle /\ InIdle

\* the single-threaded client
SpecSub == SubStart /\ [][SubNext]_vars

\* connecting over a connection that may be lost
BreakNext == ConnectNext \/ Break

SpecBreak == ConnectStart /\ [][BreakNext]_vars

\* the packet-id allocator
SpecNumerator == NumStart /\ [][NumeratorNext]_vars

\* the device client's twin requests and its read loop
SpecTwin == TwinStart /\ [][TwinNext]_vars

DispatchNext == ProcessSend \/ ProcessMsg \/ ProcessDispatch \/ ProcessPacket

\* the single-threaded client with the packets it decodes and dispatches to handlers
SpecDispatch == DispatchStart /\ [][DispatchNext]_vars

\* the connected session reading from a stream that the peer may close
SpecSession == FramerStart /\ [][SessionNext]_vars

\* the threaded client with few futures: every interleaving of the callers'
\* polls with the socket thread
WakeNext == WakeSend \/ Poll \/ SendNext \/ RecvNext

SpecWake == SockStart /\ [][WakeNext]_vars

\* the socket thread, the hub, and callers that also acknowledge inbound messages
InboundNext == Send \/ SendAckMsg \/ SendNext \/ RecvNext

SpecInbound == SockStart /\ [][InboundNext]_vars

\* the caller keeps calling complete(): WF_vars(Complete), written out
SpecConnect ==
    /\ ConnectStart
    /\ [][ConnectNext]_vars
    /\ ([]<>(~CompleteEnabled) \/ []<><<Completes>>_vars)

====
